---- MODULE Spec2Model ----
(***************************************************************************)
(* Container::SequencialMap<Key, T, Compare, Allocator>                    *)
(* (include/Utilities/Containers/SequencialMap.hpp).                       *)
(*                                                                         *)
(* The container owns a std::map m (the key index) and a std::vector v of  *)
(* std::map iterators (the sequence index).  A live std::map node is       *)
(* identified by the key it stores, so a handle held in v is that key;     *)
(* a handle whose node has been erased is Dangling.  Positions and         *)
(* iterators are offsets from v.data(): begin() is 0 and end() is size(),  *)
(* which the code takes from m, not from v.                                *)
(***************************************************************************)
EXTENDS Integers, Sequences, FiniteSets, TLC

VARIABLES
    comp,   \* the Compare template argument of the container
    v,      \* vector_type v: the handles in sequence order
    m,      \* map_type m: stored key -> mapped value
    ub,     \* the execution has run into undefined behaviour
    op,     \* the last public call and its arguments
    ret,    \* what the last call returned
    prev,   \* the container as it was when the last call started
    order,  \* keys in the order in which appends reported success
    appendOnly, \* only appends have been applied since construction
    bits,   \* RWSpinLock::bits_ of every ReadWriteLock
    handle, \* the SafeSharedPtr objects: their members lck and ptr
    value,  \* the managed int
    sum,    \* the local sum of the concurrent test, shared by reference
    thread, \* where each thread of the concurrent test stands
    proxy,  \* the PtrHelper / RefHelper objects
    acquired, \* which lock each proxy took, and how; it follows a move
    locker, \* the threads that call one RWSpinLock directly
    nest,   \* the threads that dereference twice in one expression
    weak,   \* a SafeWeakPtr, its object's owners and the thread locking it
    object, \* the objects std::shared_ptr owns and their __safeSharedLock
    ratio   \* a call of approximateRatio: its locals and where it stands

(* The container *)
cvars == <<comp, v, m, ub, op, ret, prev, order, appendOnly>>

(* The pointers, their locks and their proxies *)
svars == <<bits, handle, value, sum, thread, proxy, acquired>>

(* The direct users of the lock, the weak pointer and approximateRatio *)
xvars == <<locker, nest, weak, object, ratio>>

vars == <<cvars, svars, xvars>>

----------------------------------------------------------------------------
(* Bounds of the model *)

MaxKey == 3
MaxLen == 4
MaxBulk == 2
MaxInit == 3
MaxOther == 2

(* Key is an integer type, T is bool *)
Keys == 1..MaxKey
Values == BOOLEAN

(* T(): the value-initialised mapped value *)
DefaultT == FALSE

(* A handle in v whose std::map node has been erased *)
Dangling == 0

(* iterator_base(): n = nullptr *)
NullIt == [n |-> "nullptr"]

----------------------------------------------------------------------------
(* Compare and std::map *)

TotalOrders == {"less"}
WeakOrders == {"less", "half"}

(* "less" is std::less<Key>; "half" orders keys by key / 2, a strict weak   *)
(* order under which 2 and 3 are equivalent although 2 == 3 is false.       *)
Less(a, b) ==
    IF comp = "less" THEN a < b ELSE (a \div 2) < (b \div 2)

Equiv(a, b) == ~Less(a, b) /\ ~Less(b, a)

EmptyMap == [j \in {} |-> DefaultT]

MapInsert(mm, k, x) ==
    IF \E j \in DOMAIN mm : Equiv(j, k)
    THEN [m |-> mm,
          first |-> CHOOSE j \in DOMAIN mm : Equiv(j, k),
          second |-> FALSE]
    ELSE [m |-> [j \in (DOMAIN mm) \cup {k} |-> IF j = k THEN x ELSE mm[j]],
          first |-> k,
          second |-> TRUE]

MapErase(mm, h) == [j \in (DOMAIN mm) \ {h} |-> mm[j]]

MapAssign(mm, h, x) == [j \in DOMAIN mm |-> IF j = h THEN x ELSE mm[j]]

----------------------------------------------------------------------------
(* std::vector of handles *)

(* insert that places the handle after position pos instead of before it *)
VecInsert_After(vv, pos, h) ==
    IF pos < Len(vv)
    THEN SubSeq(vv, 1, pos + 1) \o <<h>> \o SubSeq(vv, pos + 2, Len(vv))
    ELSE Append(vv, h)

VecInsert(vv, pos, h) ==
    SubSeq(vv, 1, pos) \o <<h>> \o SubSeq(vv, pos + 1, Len(vv))

(* erase that moves the last handle into the hole *)
VecErase_SwapLast(vv, pos) ==
    IF pos + 1 = Len(vv) THEN SubSeq(vv, 1, pos)
    ELSE SubSeq(vv, 1, pos) \o <<vv[Len(vv)]>> \o SubSeq(vv, pos + 2, Len(vv) - 1)

VecErase(vv, pos) ==
    SubSeq(vv, 1, pos) \o SubSeq(vv, pos + 2, Len(vv))

(* Erasing node h from m invalidates every other handle to it. *)
Invalidate(vv, h) ==
    [i \in 1..Len(vv) |-> IF vv[i] = h THEN Dangling ELSE vv[i]]

Min(S) == CHOOSE x \in S : \A y \in S : x <= y

----------------------------------------------------------------------------
(* The container: c = [v |-> ..., m |-> ...].  Every operation returns     *)
(* [c |-> the container afterwards, ret |-> its result, ub |-> whether it  *)
(* ran into undefined behaviour].                                          *)

Cont(vv, mm) == [v |-> vv, m |-> mm]

Res(c, r) == [c |-> c, ret |-> r, ub |-> FALSE]

Undefined(c) == [c |-> c, ret |-> NullIt, ub |-> TRUE]

Size(c) == Cardinality(DOMAIN c.m)

FindIdx(c, k) ==
    LET hits == {i \in 0..(Size(c) - 1) : c.v[i + 1] = k}
    IN  IF hits = {} THEN Size(c) ELSE Min(hits)

(* std::find_if dereferences every handle up to the first match. *)
FindUB(c, k) ==
    \E i \in 0..(FindIdx(c, k) - 1) : c.v[i + 1] = Dangling

Contains(c, k) == FindIdx(c, k) # Size(c)

Clear(c) == Res(Cont(<<>>, EmptyMap), NullIt)

(* push_back that places the handle where the key sorts in m *)
PushBack_KeyOrder(c, k, x) ==
    IF FindIdx(c, k) # Size(c)
    THEN Res(c, [it |-> FindIdx(c, k), second |-> FALSE])
    ELSE LET pair == MapInsert(c.m, k, x)
             pos == Cardinality({j \in DOMAIN c.m : j < k})
         IN  Res(Cont(VecInsert(c.v, pos, pair.first), pair.m),
                 [it |-> pos, second |-> TRUE])

(* push_back that assigns the value when the key is already there *)
PushBack_Overwrites(c, k, x) ==
    IF FindIdx(c, k) # Size(c)
    THEN Res(Cont(c.v, MapAssign(c.m, k, x)),
             [it |-> FindIdx(c, k), second |-> FALSE])
    ELSE LET pair == MapInsert(c.m, k, x)
             c2 == Cont(Append(c.v, pair.first), pair.m)
         IN  Res(c2, [it |-> Size(c2) - 1, second |-> TRUE])

PushBack(c, k, x) ==
    IF FindUB(c, k) THEN Undefined(c)
    ELSE IF FindIdx(c, k) # Size(c)
    THEN Res(c, [it |-> FindIdx(c, k), second |-> FALSE])
    ELSE LET pair == MapInsert(c.m, k, x)
             c2 == Cont(Append(c.v, pair.first), pair.m)
         IN  Res(c2, [it |-> Size(c2) - 1, second |-> TRUE])

(* insert that returns end() - 1, as push_back does *)
Insert_ReturnsLast(c, pos, k, x) ==
    IF FindIdx(c, k) # Size(c)
    THEN Res(c, [it |-> FindIdx(c, k)])
    ELSE LET pair == MapInsert(c.m, k, x)
             c2 == Cont(VecInsert(c.v, pos, pair.first), pair.m)
         IN  Res(c2, [it |-> Size(c2) - 1])

Insert(c, pos, k, x) ==
    IF FindUB(c, k) THEN Undefined(c)
    ELSE IF FindIdx(c, k) # Size(c)
    THEN Res(c, [it |-> FindIdx(c, k)])
    ELSE LET pair == MapInsert(c.m, k, x)
         IN  Res(Cont(VecInsert(c.v, pos, pair.first), pair.m), [it |-> pos])

EmplaceAt(c, pos, k, x) ==
    IF FindUB(c, k) THEN Undefined(c)
    ELSE IF FindIdx(c, k) # Size(c)
    THEN Res(c, [it |-> FindIdx(c, k), second |-> FALSE])
    ELSE LET pair == MapInsert(c.m, k, x)
         IN  Res(Cont(VecInsert(c.v, pos, pair.first), pair.m),
                 [it |-> pos, second |-> TRUE])

EmplaceBack(c, k, x) == EmplaceAt(c, Size(c), k, x)

(* operator[] written as m[key] = T(): resets the value of a present key *)
Index_Resets(c, k) ==
    LET pair == MapInsert(c.m, k, DefaultT)
    IN  Res(Cont(IF pair.second THEN Append(c.v, pair.first) ELSE c.v,
                 MapAssign(pair.m, pair.first, DefaultT)),
            [ref |-> pair.first])

(* T& operator[](const key_type&): ret.ref is the node whose mapped value  *)
(* the returned reference designates.                                      *)
Index(c, k) ==
    LET pair == MapInsert(c.m, k, DefaultT)
    IN  Res(Cont(IF pair.second THEN Append(c.v, pair.first) ELSE c.v, pair.m),
            [ref |-> pair.first])

PopBack(c) ==
    LET it == c.v[Len(c.v)]
    IN  IF it = Dangling THEN Undefined(c)
        ELSE Res(Cont(Invalidate(SubSeq(c.v, 1, Len(c.v) - 1), it),
                      MapErase(c.m, it)),
                 NullIt)

(* erase(const_iterator) with the two statements swapped: v.erase first,  *)
(* so that the iterator read by m.erase is the one of the next element    *)
EraseIt_VectorFirst(c, pos) ==
    LET vv == VecErase(c.v, pos)
    IN  IF pos + 1 > Len(vv) THEN Undefined(c)
        ELSE Res(Cont(Invalidate(vv, vv[pos + 1]), MapErase(c.m, vv[pos + 1])),
                 [it |-> pos])

(* erase(const_iterator) that forgets m.erase *)
EraseIt_KeepsNode(c, pos) ==
    Res(Cont(VecErase(c.v, pos), c.m), [it |-> pos])

EraseIt(c, pos) ==
    LET h == c.v[pos + 1]
    IN  IF h = Dangling THEN Undefined(c)
        ELSE Res(Cont(Invalidate(VecErase(c.v, pos), h), MapErase(c.m, h)),
                 [it |-> pos])

(* for (it = reverse(last); it != reverse(first); ++it) ret = erase(it.base() - 1) *)
RECURSIVE EraseLoop(_, _, _, _)
EraseLoop(c, first, it, r) ==
    IF it = first THEN Res(c, r)
    ELSE LET e == EraseIt(c, it - 1)
         IN  IF e.ub THEN e ELSE EraseLoop(e.c, first, it - 1, e.ret)

EraseRange(c, first, last) == EraseLoop(c, first, last, NullIt)

ErasePos(c, pos, count) ==
    LET e == EraseRange(c, pos, pos + count)
    IN  IF e.ub THEN e ELSE Res(e.c, NullIt)

(* erase(key) that erases from m alone *)
EraseKey_OnlyMap(c, k) ==
    IF k \in DOMAIN c.m THEN Res(Cont(c.v, MapErase(c.m, k)), NullIt)
    ELSE Res(c, NullIt)

EraseKey(c, k) ==
    IF FindUB(c, k) THEN Undefined(c)
    ELSE IF FindIdx(c, k) = Size(c) THEN Res(c, NullIt)
    ELSE LET e == EraseIt(c, FindIdx(c, k))
         IN  IF e.ub THEN e ELSE Res(e.c, NullIt)

(* at(pos) that indexes m, in key order, instead of v *)
At_MapOrder(c, pos) ==
    IF pos >= Len(c.v) THEN Res(c, [throws |-> "out_of_range"])
    ELSE Res(c, [ref |-> CHOOSE j \in DOMAIN c.m :
                            Cardinality({i \in DOMAIN c.m : i < j}) = pos])

(* at(pos) whose bounds check lets pos == v.size() through *)
At_ChecksPastEnd(c, pos) ==
    IF pos > Len(c.v) THEN Res(c, [throws |-> "out_of_range"])
    ELSE IF pos = Len(c.v) THEN Undefined(c)
    ELSE Res(c, [ref |-> c.v[pos + 1]])

(* reference at(size_type pos): *v.at(pos) *)
At(c, pos) ==
    IF pos >= Len(c.v) THEN Res(c, [throws |-> "out_of_range"])
    ELSE IF c.v[pos + 1] = Dangling THEN Undefined(c)
    ELSE Res(c, [ref |-> c.v[pos + 1]])

(* iterator_base::operator*: n->operator*() *)
Deref(c, pos) ==
    IF c.v[pos + 1] = Dangling THEN Undefined(c)
    ELSE Res(c, [ref |-> c.v[pos + 1]])

(* find(key) that answers with the position of the key in m *)
Find_MapOrder(c, k) ==
    Res(c, [it |-> IF k \in DOMAIN c.m
                   THEN Cardinality({j \in DOMAIN c.m : j < k})
                   ELSE Size(c)])

Find(c, k) ==
    IF FindUB(c, k) THEN Undefined(c) ELSE Res(c, [it |-> FindIdx(c, k)])

(* bool contains(const key_type& key) const *)
ContainsKey(c, k) ==
    LET f == Find(c, k)
    IN  IF f.ub THEN f ELSE Res(c, [val |-> f.ret.it # Size(c)])

(* key(value, defaultKey) that searches m, in key order *)
Key_MapOrder(c, x, defaultKey) ==
    LET hits == {j \in DOMAIN c.m : c.m[j] = x}
    IN  Res(c, [val |-> IF hits = {} THEN defaultKey ELSE Min(hits)])

(* const key_type key(const T& value, const key_type& defaultKey) const:  *)
(* std::find_if over the sequence on v.second == value                    *)
KeyIdx(c, x) ==
    LET stops == {i \in 0..(Size(c) - 1) :
                     IF c.v[i + 1] = Dangling THEN TRUE
                     ELSE c.m[c.v[i + 1]] = x}
    IN  IF stops = {} THEN Size(c) ELSE Min(stops)

Key(c, x, defaultKey) ==
    IF KeyIdx(c, x) = Size(c) THEN Res(c, [val |-> defaultKey])
    ELSE IF c.v[KeyIdx(c, x) + 1] = Dangling THEN Undefined(c)
    ELSE Res(c, [val |-> c.v[KeyIdx(c, x) + 1]])

(* const T& value(key, defaultValue) *)
Value(c, k, defaultValue) ==
    IF FindUB(c, k) THEN Undefined(c)
    ELSE IF FindIdx(c, k) = Size(c) THEN Res(c, [val |-> defaultValue])
    ELSE Res(c, [val |-> c.m[c.v[FindIdx(c, k) + 1]]])

(* const T operator[](const key_type&) const *)
IndexConst(c, k) == Value(c, k, DefaultT)

(* Iterators.  An iterator holds n, a pointer into v's buffer; it is      *)
(* modelled by the offset n - v.data().                                   *)
Begin(c) == 0

(* end(): v.data() + size(), size() being m.size() *)
End(c) == Size(c)

(* iterator_base::operator+(difference_type), operator-(iterator_base) *)
ItPlus(it, j) == it + j

ItMinus(it, j) == it - j

(* operator< answering from n > other.n *)
ItLess_Reversed(a, b) == a > b

(* iterator_base::operator<, operator<=, operator>, operator>= *)
ItLess(a, b) == a < b

ItLessEq(a, b) == a <= b

ItGreater(a, b) == a > b

ItGreaterEq(a, b) == a >= b

(* std::reverse_iterator<iterator>: rbegin() wraps end(), + j moves the   *)
(* wrapped iterator back by j, and * dereferences the one before it.      *)
RBegin(c) == [base |-> End(c)]

RPlus(rit, j) == [base |-> ItMinus(rit.base, j)]

RDeref(c, rit) == Deref(c, ItMinus(rit.base, 1))

(* key_iterator::operator*: n->operator*().first *)
KeyBegin(c) == 0

KeyDeref(c, it) ==
    IF c.v[it + 1] = Dangling THEN Undefined(c)
    ELSE Res(c, [val |-> c.v[it + 1]])

(* The expressions of an iterator walk at offsets i and j *)
Iterators(c, i, j) ==
    LET it == ItPlus(Begin(c), i)
        jt == ItPlus(Begin(c), j)
        valid == i < Size(c)
    IN  IF valid /\ (Deref(c, it).ub \/ RDeref(c, RPlus(RBegin(c), i)).ub)
        THEN Undefined(c)
        ELSE Res(c, [diff |-> ItMinus(it, Begin(c)),
                     atEnd |-> ItPlus(Begin(c), Size(c)) = End(c),
                     deref |-> IF valid THEN Deref(c, it).ret ELSE NullIt,
                     rderef |-> IF valid
                                THEN RDeref(c, RPlus(RBegin(c), i)).ret
                                ELSE NullIt,
                     key |-> IF valid
                             THEN KeyDeref(c, ItPlus(KeyBegin(c), i)).ret
                             ELSE NullIt,
                     eq |-> it = jt,
                     lt |-> ItLess(it, jt),
                     le |-> ItLessEq(it, jt),
                     gt |-> ItGreater(it, jt),
                     ge |-> ItGreaterEq(it, jt)])

(* Assignment through a reference an access path returned *)
Store(r, x) ==
    IF r.ub \/ "ref" \notin DOMAIN r.ret THEN r
    ELSE Res(Cont(r.c.v, MapAssign(r.c.m, r.ret.ref, x)), r.ret)

WriteAt(c, pos, x) == Store(At(c, pos), x)

WriteIt(c, pos, x) == Store(Deref(c, pos), x)

WriteIndex(c, k, x) == Store(Index(c, k), x)

WriteFind(c, k, x) ==
    LET f == Find(c, k)
    IN  IF f.ub \/ f.ret.it = Size(c) THEN f ELSE Store(Deref(c, f.ret.it), x)

(* iterator_base::operator== between a returned iterator and begin() +   *)
(* pos: the two pointers n are compared.  A default-constructed iterator  *)
(* holds nullptr, which v.data() + pos can only be while v holds nothing. *)
IteratorEq(c, it, pos) ==
    IF it = NullIt THEN Len(c.v) = 0 /\ pos = 0 ELSE it = [it |-> pos]

(* A traversal from begin() to end() dereferences every handle it passes *)
TraverseUB(c) == \E i \in 1..Size(c) : c.v[i] = Dangling

(* The (key, value) pairs a traversal from begin() to end() yields *)
Elements(c) ==
    [i \in 1..Size(c) |-> [key |-> c.v[i], val |-> c.m[c.v[i]]]]

(* template<InputIt> void push_back(InputIt first, InputIt last);          *)
(* ret.appended lists the keys whose push_back returned true.              *)
RECURSIVE PushBackLoop(_, _, _)
PushBackLoop(c, range, done) ==
    IF range = <<>> THEN Res(c, [appended |-> done])
    ELSE LET r == PushBack(c, Head(range).key, Head(range).val)
         IN  IF r.ub THEN r
             ELSE PushBackLoop(r.c, Tail(range),
                               IF r.ret.second THEN Append(done, Head(range).key)
                               ELSE done)

PushBackRange(c, range) == PushBackLoop(c, range, <<>>)

(* The pairs of a std::map in the order its iteration yields them: sorted *)
(* by Compare.                                                            *)
MapElements(mm) ==
    [i \in 1..Cardinality(DOMAIN mm) |->
        LET k == CHOOSE j \in DOMAIN mm :
                     Cardinality({l \in DOMAIN mm : Less(l, j)}) = i - 1
        IN  [key |-> k, val |-> mm[k]]]

(* operator== that compares the two traversals position by position *)
Equals_BySequence(c, other) ==
    Res(c, [val |-> Elements(c) = Elements(other)])

(* bool operator==(const SequencialMap& other) const: m == other.m, which *)
(* std::map decides by size and then pairwise over the sorted elements.   *)
Equals(c, other) ==
    Res(c, [val |-> /\ Cardinality(DOMAIN c.m) = Cardinality(DOMAIN other.m)
                    /\ \A i \in 1..Cardinality(DOMAIN c.m) :
                         MapElements(c.m)[i] = MapElements(other.m)[i]])

(* bool operator!=(const SequencialMap& other) const                      *)
(* { return *this != other; }: the body calls the same operator with the  *)
(* same operands, so no evaluation reaches a value.  The recursion either *)
(* never comes back (stack exhaustion, or an endless loop once the tail   *)
(* call is folded) or, being free of side effects, is compiled into a     *)
(* return of an arbitrary bool.                                           *)
Diverges == [diverges |-> TRUE]

NotEquals(c, other) ==
    {Res(c, Diverges)} \cup {Res(c, [val |-> b]) : b \in BOOLEAN}

(* range insert whose index is not advanced after an insertion *)
RECURSIVE InsertLoop_FixedIndex(_, _, _)
InsertLoop_FixedIndex(c, index, range) ==
    IF range = <<>> THEN Res(c, NullIt)
    ELSE IF FindIdx(c, Head(range).key) # Size(c)
    THEN InsertLoop_FixedIndex(c, index, Tail(range))
    ELSE InsertLoop_FixedIndex(
             Insert(c, index, Head(range).key, Head(range).val).c,
             index, Tail(range))

InsertRange_FixedIndex(c, pos, range) == InsertLoop_FixedIndex(c, pos, range)

(* template<InputIt> void insert(iterator pos, InputIt first, InputIt last) *)
RECURSIVE InsertLoop(_, _, _)
InsertLoop(c, index, range) ==
    IF range = <<>> THEN Res(c, NullIt)
    ELSE IF FindUB(c, Head(range).key) THEN Undefined(c)
    ELSE IF FindIdx(c, Head(range).key) # Size(c)
    THEN InsertLoop(c, index, Tail(range))
    ELSE LET r == Insert(c, index, Head(range).key, Head(range).val)
         IN  IF r.ub THEN r ELSE InsertLoop(r.c, index + 1, Tail(range))

InsertRange(c, pos, range) == InsertLoop(c, pos, range)

(* size_type is unsigned: a difference below zero wraps around.  SizeBits *)
(* is the least width the language guarantees for it.                     *)
SizeBits == 16

SizeSub(a, b) == (a - b) % (2 ^ SizeBits)

(* mid(pos, length) that takes the entries from position 0 *)
Mid_FromStart(c, pos, length) ==
    IF pos >= Size(c) THEN Res(c, [mid |-> Cont(<<>>, EmptyMap)])
    ELSE LET len == Min({length, SizeSub(Size(c), pos)})
             r == InsertRange(Cont(<<>>, EmptyMap), 0,
                              SubSeq(Elements(c), 1, len))
         IN  Res(c, [mid |-> r.c])

(* SequencialMap mid(size_type pos, size_type length) const: ret.mid is   *)
(* the returned container                                                 *)
Mid(c, pos, length) ==
    IF pos >= Size(c) THEN Res(c, [mid |-> Cont(<<>>, EmptyMap)])
    ELSE LET len == Min({length, SizeSub(Size(c), pos)})
         IN  IF \E i \in (pos + 1)..(pos + len) : c.v[i] = Dangling
             THEN Undefined(c)
             ELSE LET range == [n \in 1..len |->
                                  [key |-> c.v[pos + n],
                                   val |-> c.m[c.v[pos + n]]]]
                      r == InsertRange(Cont(<<>>, EmptyMap), 0, range)
                  IN  IF r.ub THEN Undefined(c) ELSE Res(c, [mid |-> r.c])

(* SequencialMap mid(size_type pos) const *)
MidFrom(c, pos) == Mid(c, pos, SizeSub(Size(c), pos))

(* swap that exchanges v but not m *)
Swap_VectorOnly(c, other) ==
    Res(Cont(other.v, c.m), [other |-> Cont(c.v, other.m)])

(* std::erase_if(c, pred):                                                *)
(*   for (auto i = c.begin(), last = c.end(); i != last; )                *)
(*     if pred holds of *i then i = c.erase(i) else ++i                   *)
(* last is computed once, before the loop.  A predicate is given by the   *)
(* set of keys it accepts.  Reading *i at an offset at or past v.size()   *)
(* reads outside the vector's elements.                                   *)
RECURSIVE EraseIfLoop(_, _, _, _)
EraseIfLoop(c, pred, i, last) ==
    IF i = last THEN Res(c, NullIt)
    ELSE IF i >= Len(c.v) THEN Undefined(c)
    ELSE IF c.v[i + 1] = Dangling THEN Undefined(c)
    ELSE IF c.v[i + 1] \in pred
    THEN LET e == EraseIt(c, i)
         IN  IF e.ub THEN e ELSE EraseIfLoop(e.c, pred, e.ret.it, last)
    ELSE EraseIfLoop(c, pred, ItPlus(i, 1), last)

EraseIf(c, pred) == EraseIfLoop(c, pred, Begin(c), End(c))

(* void swap(SequencialMap& other): ret.other is other afterwards *)
Swap(c, other) == Res(other, [other |-> c])

(* SequencialMap(InputIt first, InputIt last, ...) and                    *)
(* SequencialMap(std::initializer_list<value_type> init, ...): an empty   *)
(* container, then push_back of the range                                 *)
RECURSIVE LastWinsLoop(_, _)
LastWinsLoop(c, range) ==
    IF range = <<>> THEN Res(c, [appended |-> [i \in 1..Size(c) |-> c.v[i]]])
    ELSE LastWinsLoop(PushBack_Overwrites(c, Head(range).key, Head(range).val).c,
                      Tail(range))

(* a range constructor under which the last pair of a key wins *)
ConstructRange_LastWins(range) == LastWinsLoop(Cont(<<>>, EmptyMap), range)

ConstructRange(range) == PushBackRange(Cont(<<>>, EmptyMap), range)

(* SequencialMap(const SequencialMap& other): ret.other is other afterwards *)
CopyConstruct(other) ==
    IF TraverseUB(other) THEN Undefined(other)
    ELSE LET r == PushBackRange(Cont(<<>>, EmptyMap), Elements(other))
         IN  IF r.ub THEN r ELSE Res(r.c, [other |-> other])

(* SequencialMap(SequencialMap&& other): v and m are move-constructed from *)
(* other.v and other.m, which are left empty; ret.other is other afterwards *)
MoveConstruct(other) == Res(other, [other |-> Cont(<<>>, EmptyMap)])

(* operator+= under which the right operand's value wins on a conflict *)
PlusAssign_RightWins(c, other) ==
    Res(LastWinsLoop(c, Elements(other)).c, [other |-> other])

(* SequencialMap& operator+=(const SequencialMap& other), and              *)
(* void push_back(const SequencialMap& other): ret.other is other          *)
(* afterwards                                                              *)
PlusAssign(c, other) ==
    IF TraverseUB(other) THEN Undefined(c)
    ELSE LET r == PushBackRange(c, Elements(other))
         IN  IF r.ub THEN r ELSE Res(r.c, [other |-> other])

(* SequencialMap operator+(const SequencialMap& other) const: ret.sum is  *)
(* the returned container                                                 *)
Plus(c, other) ==
    LET copy == CopyConstruct(c)
    IN  IF copy.ub THEN Undefined(c)
        ELSE LET r == PlusAssign(copy.c, other)
             IN  IF r.ub THEN Undefined(c)
                 ELSE Res(c, [sum |-> r.c, other |-> r.ret.other])

(* copy assignment without the clear() *)
CopyAssign_NoClear(c, other, self) ==
    IF self THEN Res(c, [other |-> c])
    ELSE LET r == PushBackRange(c, Elements(other))
         IN  IF r.ub THEN r ELSE Res(r.c, [other |-> other])

(* SequencialMap& operator=(const SequencialMap& other) *)
CopyAssign(c, other, self) ==
    IF self THEN Res(c, [other |-> c])
    ELSE LET r == PushBackRange(Clear(c).c, Elements(other))
         IN  IF r.ub THEN r ELSE Res(r.c, [other |-> other])

(* SequencialMap& operator=(SequencialMap&& other): other swaps with this *)
MoveAssign(c, other) == Swap(c, other)

----------------------------------------------------------------------------
(* Serialisation.  Stream is a template argument; the stream modelled here *)
(* is the BinaryStream of test/Container/SequencialMap.cpp, which writes   *)
(* every number as FieldWidth decimal digits and reads it back from the    *)
(* same number of characters.  A stream is the sequence of its digits.     *)

FieldWidth == 4

(* BinaryStream::operator<<(size_t) / operator<<(int): sprintf("%04d") *)
WriteInt(n) ==
    [i \in 1..FieldWidth |-> (n \div (10 ^ (FieldWidth - i))) % 10]

(* BinaryStream::operator>>: std::stoi(str.substr(i, 4)) *)
RECURSIVE Stoi(_)
Stoi(digits) ==
    IF digits = <<>> THEN 0
    ELSE 10 * Stoi(SubSeq(digits, 1, Len(digits) - 1)) + digits[Len(digits)]

ReadInt(str, i) == Stoi(SubSeq(str, i + 1, i + FieldWidth))

(* T is bool: written as the int it promotes to, read back as a bool *)
WriteT(x) == WriteInt(IF x THEN 1 ELSE 0)

ReadT(str, i) == ReadInt(str, i) # 0

(* operator<<(Stream&, const SerializeManipulator&) *)
RECURSIVE WriteLoop(_, _)
WriteLoop(elems, out) ==
    IF elems = <<>> THEN out
    ELSE WriteLoop(Tail(elems),
                   out \o WriteInt(Head(elems).key) \o WriteT(Head(elems).val))

Serialize(c) ==
    IF TraverseUB(c) THEN Undefined(c)
    ELSE Res(c, [stream |-> WriteLoop(Elements(c), WriteInt(Size(c)))])

(* operator>>(Stream&, SerializeManipulator): the loop after in >> size *)
RECURSIVE ReadLoop(_, _, _, _)
ReadLoop(c, str, i, size) ==
    IF size = 0 THEN Res(c, [stream |-> str])
    ELSE IF i + 2 * FieldWidth > Len(str) THEN Res(c, [throws |-> "stoi"])
    ELSE LET r == PushBack(c, ReadInt(str, i), ReadT(str, i + FieldWidth))
         IN  IF r.ub THEN r
             ELSE ReadLoop(r.c, str, i + 2 * FieldWidth, size - 1)

(* operator>> without manip.map.clear() *)
Deserialize_KeepsEntries(c, str) ==
    IF Len(str) < FieldWidth THEN Res(c, [throws |-> "stoi"])
    ELSE ReadLoop(c, str, FieldWidth, ReadInt(str, 0))

Deserialize(c, str) ==
    IF Len(str) < FieldWidth THEN Res(Clear(c).c, [throws |-> "stoi"])
    ELSE ReadLoop(Clear(c).c, str, FieldWidth, ReadInt(str, 0))

----------------------------------------------------------------------------
(* Actions *)

Idle == [name |-> "idle"]

Record(r, call, appends, okKeys) ==
    /\ v' = r.c.v
    /\ m' = r.c.m
    /\ ub' = r.ub
    /\ op' = call
    /\ ret' = r.ret
    /\ prev' = Cont(v, m)
    /\ LET tracked == appendOnly /\ appends /\ Len(order \o okKeys) <= MaxLen
       IN  /\ appendOnly' = tracked
           /\ order' = IF tracked THEN order \o okKeys ELSE <<>>
    /\ UNCHANGED <<comp, svars, xvars>>

This == Cont(v, m)

Positions == 0..Size(This)

Range(s) == {s[i] : i \in 1..Len(s)}

(* The inputs of the range and two-container overloads: ranges of at most  *)
(* MaxBulk pairs, and well-formed containers of at most MaxOther entries.  *)
Pairs == [key : Keys, val : Values]

Ranges == UNION {[1..n -> Pairs] : n \in 0..MaxBulk}

KeySeqs ==
    UNION {{s \in [1..n -> Keys] :
               \A i, j \in 1..n : i # j => ~Equiv(s[i], s[j])} : n \in 0..MaxOther}

Others == UNION {{Cont(s, f) : f \in [Range(s) -> Values]} : s \in KeySeqs}

DoClear ==
    /\ ~ub /\ op = Idle
    /\ Record(Clear(This), [name |-> "clear"], FALSE, <<>>)

DoPushBack ==
    /\ ~ub /\ op = Idle
    /\ Len(v) < MaxLen
    /\ \E k \in Keys, x \in Values :
         LET r == PushBack(This, k, x)
         IN  Record(r, [name |-> "push_back", key |-> k, val |-> x], TRUE,
                    IF ~r.ub /\ r.ret.second THEN <<k>> ELSE <<>>)

DoEmplaceBack ==
    /\ ~ub /\ op = Idle
    /\ Len(v) < MaxLen
    /\ \E k \in Keys, x \in Values :
         LET r == EmplaceBack(This, k, x)
         IN  Record(r, [name |-> "emplace_back", key |-> k, val |-> x], TRUE,
                    IF ~r.ub /\ r.ret.second THEN <<k>> ELSE <<>>)

DoIndex ==
    /\ ~ub /\ op = Idle
    /\ Len(v) < MaxLen
    /\ \E k \in Keys :
         Record(Index(This, k), [name |-> "operator[]", key |-> k], TRUE,
                IF Contains(This, k) THEN <<>> ELSE <<k>>)

DoPushBackRange ==
    /\ ~ub /\ op = Idle
    /\ Len(v) + MaxBulk <= MaxLen
    /\ \E range \in Ranges :
         LET r == PushBackRange(This, range)
         IN  Record(r, [name |-> "push_back_range", range |-> range], TRUE,
                    IF r.ub THEN <<>> ELSE r.ret.appended)

DoInsert ==
    /\ ~ub /\ op = Idle
    /\ Len(v) < MaxLen
    /\ \E pos \in Positions, k \in Keys, x \in Values :
         Record(Insert(This, pos, k, x),
                [name |-> "insert", pos |-> pos, key |-> k, val |-> x],
                FALSE, <<>>)

DoEmplaceAt ==
    /\ ~ub /\ op = Idle
    /\ Len(v) < MaxLen
    /\ \E pos \in Positions, k \in Keys, x \in Values :
         Record(EmplaceAt(This, pos, k, x),
                [name |-> "emplace_at", pos |-> pos, key |-> k, val |-> x],
                FALSE, <<>>)

DoPopBack ==
    /\ ~ub /\ op = Idle
    /\ Size(This) > 0
    /\ Record(PopBack(This), [name |-> "pop_back"], FALSE, <<>>)

DoEraseKey ==
    /\ ~ub /\ op = Idle
    /\ \E k \in Keys :
         Record(EraseKey(This, k), [name |-> "erase_key", key |-> k],
                FALSE, <<>>)

DoEraseIt ==
    /\ ~ub /\ op = Idle
    /\ \E pos \in 0..(Size(This) - 1) :
         Record(EraseIt(This, pos), [name |-> "erase_it", pos |-> pos],
                FALSE, <<>>)

DoEraseRange ==
    /\ ~ub /\ op = Idle
    /\ \E first \in Positions, last \in Positions :
         /\ first <= last
         /\ Record(EraseRange(This, first, last),
                   [name |-> "erase_range", first |-> first, last |-> last],
                   FALSE, <<>>)

DoErasePos ==
    /\ ~ub /\ op = Idle
    /\ \E pos \in Positions, count \in Positions :
         /\ pos + count <= Size(This)
         /\ Record(ErasePos(This, pos, count),
                   [name |-> "erase_pos", pos |-> pos, count |-> count],
                   FALSE, <<>>)

DoWriteAt ==
    /\ ~ub /\ op = Idle
    /\ \E pos \in Positions, x \in Values :
         Record(WriteAt(This, pos, x),
                [name |-> "write_at", pos |-> pos, val |-> x], FALSE, <<>>)

DoWriteIt ==
    /\ ~ub /\ op = Idle
    /\ \E pos \in 0..(Size(This) - 1), x \in Values :
         Record(WriteIt(This, pos, x),
                [name |-> "write_it", pos |-> pos, val |-> x], FALSE, <<>>)

DoWriteIndex ==
    /\ ~ub /\ op = Idle
    /\ Len(v) < MaxLen
    /\ \E k \in Keys, x \in Values :
         Record(WriteIndex(This, k, x),
                [name |-> "write_index", key |-> k, val |-> x], TRUE,
                IF Contains(This, k) THEN <<>> ELSE <<k>>)

DoWriteFind ==
    /\ ~ub /\ op = Idle
    /\ \E k \in Keys, x \in Values :
         Record(WriteFind(This, k, x),
                [name |-> "write_find", key |-> k, val |-> x], FALSE, <<>>)

(* Read-only calls *)
DoAt ==
    /\ ~ub /\ op = Idle
    /\ \E pos \in 0..(Size(This) + 1) :
         Record(At(This, pos), [name |-> "at", pos |-> pos], TRUE, <<>>)

DoValue ==
    /\ ~ub /\ op = Idle
    /\ \E k \in Keys, d \in Values :
         Record(Value(This, k, d),
                [name |-> "value", key |-> k, defaultValue |-> d], TRUE, <<>>)

DoIndexConst ==
    /\ ~ub /\ op = Idle
    /\ \E k \in Keys :
         Record(IndexConst(This, k),
                [name |-> "operator[] const", key |-> k, defaultValue |-> DefaultT],
                TRUE, <<>>)

DoEquals ==
    /\ ~ub /\ op = Idle
    /\ \E other \in Others :
         Record(Equals(This, other), [name |-> "operator==", other |-> other],
                TRUE, <<>>)

DoNotEquals ==
    /\ ~ub /\ op = Idle
    /\ \E other \in Others : \E r \in NotEquals(This, other) :
         Record(r, [name |-> "operator!=", other |-> other], TRUE, <<>>)

(* out << map.serialize() *)
DoSerialize ==
    /\ ~ub /\ op = Idle
    /\ Record(Serialize(This), [name |-> "serialize"], TRUE, <<>>)

(* in >> t.deserialize(), in holding what serialize() has just written;   *)
(* ret.other is t afterwards                                              *)
DoDeserialize ==
    /\ ~ub /\ op.name = "serialize"
    /\ \E t \in Others :
         LET r == Deserialize(t, ret.stream)
         IN  /\ ub' = r.ub
             /\ op' = [name |-> "deserialize", t |-> t, stream |-> ret.stream]
             /\ ret' = [other |-> r.c, result |-> r.ret]
             /\ UNCHANGED <<comp, v, m, prev, order, appendOnly, svars, xvars>>

(* The container is constructed from a range or an initializer list       *)
(* instead of being default-constructed.                                  *)
InitLists == UNION {[1..n -> Pairs] : n \in 0..MaxInit}

DoConstructRange ==
    /\ ~ub /\ op = Idle
    /\ appendOnly /\ order = <<>> /\ v = <<>>
    /\ \E init \in InitLists :
         LET r == ConstructRange(init)
         IN  Record(r, [name |-> "construct", init |-> init], TRUE,
                    IF r.ub THEN <<>> ELSE r.ret.appended)

(* SequencialMap b = *this: ret.constructed is b *)
DoCopyConstruct ==
    /\ ~ub /\ op = Idle
    /\ LET r == CopyConstruct(This)
       IN  Record([c |-> IF r.ub THEN This ELSE r.ret.other,
                   ret |-> [constructed |-> r.c], ub |-> r.ub],
                  [name |-> "copy_construct"], TRUE, <<>>)

(* SequencialMap b = std::move of this: ret.constructed is b *)
DoMoveConstruct ==
    /\ ~ub /\ op = Idle
    /\ LET r == MoveConstruct(This)
       IN  Record([c |-> r.ret.other, ret |-> [constructed |-> r.c],
                   ub |-> r.ub],
                  [name |-> "move_construct"], FALSE, <<>>)

(* A later value write, erase or push_back on the copy or on its source *)
Modifications(c) ==
    {WriteIt(c, pos, x) : pos \in 0..(Size(c) - 1), x \in Values}
        \cup {EraseIt(c, pos) : pos \in 0..(Size(c) - 1)}
        \cup {PushBack(c, k, x) : k \in Keys, x \in Values}

DoModifyCopy ==
    /\ ~ub /\ op.name = "copy_construct"
    /\ Len(v) < MaxLen
    /\ \/ \E r \in Modifications(ret.constructed) :
            /\ ub' = r.ub
            /\ ret' = [constructed |-> r.c]
            /\ op' = [name |-> "modify_copy", side |-> "copy",
                      copy |-> ret.constructed, result |-> r.ret]
            /\ UNCHANGED <<v, m>>
       \/ \E r \in Modifications(This) :
            /\ ub' = r.ub
            /\ v' = r.c.v
            /\ m' = r.c.m
            /\ op' = [name |-> "modify_copy", side |-> "source",
                      copy |-> ret.constructed, result |-> r.ret]
            /\ UNCHANGED ret
    /\ UNCHANGED <<comp, prev, svars, xvars>>
    /\ appendOnly' = FALSE
    /\ order' = <<>>

DoPlusAssign ==
    /\ ~ub /\ op = Idle
    /\ Len(v) + MaxOther <= MaxLen
    /\ \E other \in Others :
         Record(PlusAssign(This, other),
                [name |-> "operator+=", other |-> other], FALSE, <<>>)

DoPlus ==
    /\ ~ub /\ op = Idle
    /\ \E other \in Others :
         Record(Plus(This, other), [name |-> "operator+", other |-> other],
                TRUE, <<>>)

DoInsertRange ==
    /\ ~ub /\ op = Idle
    /\ Len(v) + MaxBulk <= MaxLen
    /\ \E pos \in Positions, range \in Ranges :
         Record(InsertRange(This, pos, range),
                [name |-> "insert_range", pos |-> pos, range |-> range],
                FALSE, <<>>)

DoMid ==
    /\ ~ub /\ op = Idle
    /\ \E pos \in 0..(Size(This) + 1), length \in 0..(Size(This) + 1) :
         Record(Mid(This, pos, length),
                [name |-> "mid", pos |-> pos, length |-> length], TRUE, <<>>)

DoMidFrom ==
    /\ ~ub /\ op = Idle
    /\ \E pos \in 0..(Size(This) + 1) :
         Record(MidFrom(This, pos),
                [name |-> "mid", pos |-> pos,
                 length |-> SizeSub(Size(This), pos)], TRUE, <<>>)

DoFind ==
    /\ ~ub /\ op = Idle
    /\ \E k \in Keys :
         Record(Find(This, k), [name |-> "find", key |-> k], TRUE, <<>>)

DoContains ==
    /\ ~ub /\ op = Idle
    /\ \E k \in Keys :
         Record(ContainsKey(This, k), [name |-> "contains", key |-> k],
                TRUE, <<>>)

DoKey ==
    /\ ~ub /\ op = Idle
    /\ \E x \in Values, defaultKey \in Keys :
         Record(Key(This, x, defaultKey),
                [name |-> "key", val |-> x, defaultKey |-> defaultKey],
                TRUE, <<>>)

DoIterators ==
    /\ ~ub /\ op = Idle
    /\ \E i \in Positions, j \in Positions :
         Record(Iterators(This, i, j), [name |-> "iterators", i |-> i, j |-> j],
                TRUE, <<>>)

DoSwap ==
    /\ ~ub /\ op = Idle
    /\ \E other \in Others :
         Record(Swap(This, other), [name |-> "swap", other |-> other],
                FALSE, <<>>)

(* a.swap(b) followed by a second a.swap(b) *)
DoSwapAgain ==
    /\ ~ub /\ op.name = "swap"
    /\ LET r == Swap(This, ret.other)
       IN  /\ v' = r.c.v
           /\ m' = r.c.m
           /\ ub' = r.ub
           /\ ret' = r.ret
           /\ op' = [name |-> "swap_again", other |-> op.other]
           /\ appendOnly' = FALSE
           /\ order' = <<>>
           /\ UNCHANGED <<comp, prev, svars, xvars>>

DoCopyAssign ==
    /\ ~ub /\ op = Idle
    /\ \E other \in Others :
         Record(CopyAssign(This, other, FALSE),
                [name |-> "copy_assign", other |-> other, self |-> FALSE],
                FALSE, <<>>)

DoCopyAssignSelf ==
    /\ ~ub /\ op = Idle
    /\ Record(CopyAssign(This, This, TRUE),
              [name |-> "copy_assign", other |-> This, self |-> TRUE],
              FALSE, <<>>)

DoMoveAssign ==
    /\ ~ub /\ op = Idle
    /\ \E other \in Others :
         Record(MoveAssign(This, other),
                [name |-> "move_assign", other |-> other], FALSE, <<>>)

(* push_back(k, v1) followed by push_back(k, v2) *)
DoPushBackAgain ==
    /\ ~ub /\ op.name = "push_back"
    /\ Len(v) < MaxLen
    /\ \E x \in Values :
         LET r == PushBack(This, op.key, x)
         IN  Record(r, [name |-> "push_back_again", key |-> op.key,
                        val1 |-> op.val, val2 |-> x, first |-> ret],
                    TRUE, IF ~r.ub /\ r.ret.second THEN <<op.key>> ELSE <<>>)

(* erase(insert(pos, k, v)): erase takes the iterator insert returned *)
DoEraseInserted ==
    /\ ~ub /\ op.name = "insert"
    /\ LET r == EraseIt(This, ret.it)
       IN  /\ v' = r.c.v
           /\ m' = r.c.m
           /\ ub' = r.ub
           /\ op' = [name |-> "erase_insert", pos |-> op.pos, key |-> op.key,
                     val |-> op.val, it |-> ret.it]
           /\ ret' = r.ret
           /\ UNCHANGED <<comp, prev, order, appendOnly, svars, xvars>>

(* The full expression ends: the caller drops what the call returned. *)
EndCall ==
    /\ op # Idle
    /\ ret # Diverges
    /\ op' = Idle
    /\ ret' = NullIt
    /\ prev' = This
    /\ UNCHANGED <<comp, v, m, ub, order, appendOnly, svars, xvars>>

Preds == SUBSET Keys

DoEraseIf ==
    /\ ~ub /\ op = Idle
    /\ \E pred \in Preds :
         Record(EraseIf(This, pred), [name |-> "erase_if", pred |-> pred],
                FALSE, <<>>)

----------------------------------------------------------------------------
(***************************************************************************)
(* Memory::SafeSharedPtr<T> (Utilities/MemorySafety/SafeSharedPtr.hpp) and *)
(* Memory::RWSpinLock (include/Utilities/MemorySafety/RWSpinLock.hpp), the *)
(* ReadWriteLock of the pointer before C++17.  From C++17 on ReadWriteLock *)
(* is std::shared_mutex, whose lock() and lock_shared() are the successful *)
(* steps below without the failed attempts.                                *)
(*                                                                         *)
(* A SafeSharedPtr is a pair of shared pointers: lck, the lock, and ptr,   *)
(* the managed object.  A proxy (PtrHelper, RefHelper) stores the address  *)
(* of the SafeSharedPtr it was made from, not the lock.                    *)
(***************************************************************************)

(* Bounds of the model *)
MaxOuter == 1
MaxInner == 2
MaxHandles == 2
MaxProxies == 2

(* The main thread and the std::thread of the concurrent test *)
Threads == 2

ThreadIds == 1..Threads
Handles == 1..MaxHandles
Locks == 1..MaxHandles
Proxies == 1..MaxProxies

(* enum : int32_t { READER = 4, UPGRADED = 2, WRITER = 1 } *)
READER == 4
UPGRADED == 2
WRITER == 1

(* The member initializers of the proxies: ptr = nullptr, constPtr = nullptr *)
nullptr == 0

(* value & (WRITER | UPGRADED) on the two's complement lock word *)
ExclusiveBits(b) == b % (WRITER + UPGRADED + 1)

(* try_lock() that takes the lock whenever no writer holds it *)
try_lock_IgnoresReaders(b) ==
    IF b % 2 = 0 THEN [ok |-> TRUE, bits |-> b + WRITER]
    ELSE [ok |-> FALSE, bits |-> b]

(* RWSpinLock::try_lock(): compare_exchange_strong(0, WRITER) *)
try_lock(b) ==
    IF b = 0 THEN [ok |-> TRUE, bits |-> WRITER]
    ELSE [ok |-> FALSE, bits |-> b]

(* RWSpinLock::unlock(): fetch_and(~(WRITER | UPGRADED)) *)
unlock(b) == b - ExclusiveBits(b)

(* RWSpinLock::try_lock_shared(), its first atomic step: fetch_add(READER) *)
(* and the test of the value that was there before                         *)
try_lock_shared(b) == [ok |-> ExclusiveBits(b) = 0, bits |-> b + READER]

(* try_lock_shared() that leaves its READER behind when it fails *)
try_lock_shared_fail_NoUndo(b) == b

(* RWSpinLock::try_lock_shared(), its second atomic step when the first    *)
(* found a writer: fetch_add(-READER)                                      *)
try_lock_shared_fail(b) == b - READER

(* RWSpinLock::unlock_shared(): fetch_add(-READER) *)
unlock_shared(b) == b - READER

(* A copy constructor that makes a lock of its own, as the constructors    *)
(* from a raw pointer do                                                   *)
SafeSharedPtrCopy_NewLock(other) ==
    [lck |-> other.lck + 1, ptr |-> other.ptr]

(* SafeSharedPtr(T* p): lck(std::make_shared<ReadWriteLock>()), ptr(p) *)
SafeSharedPtrNew(l, p) == [lck |-> l, ptr |-> p]

(* SafeSharedPtr(const SafeSharedPtr<T>& other): lck(other.lck),           *)
(* ptr(other.ptr)                                                          *)
SafeSharedPtrCopy(other) == [lck |-> other.lck, ptr |-> other.ptr]

(* TEST(SafeSharedPtr, concurrent): each thread runs                       *)
(*   for (i < MaxOuter) { sum = *cPtr; for (j < MaxInner) *ptr += 1; }     *)
(* on its own copy of ptr; thread t owns handle t.                         *)
ThreadStart == [pc |-> "lock_shared", i |-> 0, j |-> 0, tmp |-> 0]

(* sum = *cPtr: const RefHelper(const SafeSharedPtr&), lock_shared() *)
DoThreadLockShared ==
    \E t \in ThreadIds :
      /\ thread[t].pc = "lock_shared"
      /\ LET l == handle[t].lck
             r == try_lock_shared(bits[l])
         IN  /\ bits' = [bits EXCEPT ![l] = r.bits]
             /\ thread' = [thread EXCEPT ![t].pc =
                             IF r.ok THEN "read" ELSE "lock_shared_fail"]
      /\ UNCHANGED <<handle, value, sum, proxy, acquired, cvars, xvars>>

(* the failed try_lock_shared() gives its READER back; lock_shared() loops *)
DoThreadLockSharedFail ==
    \E t \in ThreadIds :
      /\ thread[t].pc = "lock_shared_fail"
      /\ LET l == handle[t].lck
         IN  bits' = [bits EXCEPT ![l] = try_lock_shared_fail(@)]
      /\ thread' = [thread EXCEPT ![t].pc = "lock_shared"]
      /\ UNCHANGED <<handle, value, sum, proxy, acquired, cvars, xvars>>

(* sum = operator const_reference() *)
DoThreadRead ==
    \E t \in ThreadIds :
      /\ thread[t].pc = "read"
      /\ sum' = value
      /\ thread' = [thread EXCEPT ![t].pc = "unlock_shared"]
      /\ UNCHANGED <<bits, handle, value, proxy, acquired, cvars, xvars>>

(* the const RefHelper dies at the end of the statement: unlock_shared() *)
DoThreadUnlockShared ==
    \E t \in ThreadIds :
      /\ thread[t].pc = "unlock_shared"
      /\ LET l == handle[t].lck
         IN  bits' = [bits EXCEPT ![l] = unlock_shared(@)]
      /\ thread' = [thread EXCEPT ![t].pc = "lock"]
      /\ UNCHANGED <<handle, value, sum, proxy, acquired, cvars, xvars>>

(* *ptr += 1: RefHelper(SafeSharedPtr&), lock(); a failed try_lock()       *)
(* changes nothing and is tried again                                      *)
DoThreadLock ==
    \E t \in ThreadIds :
      /\ thread[t].pc = "lock"
      /\ LET l == handle[t].lck
             r == try_lock(bits[l])
         IN  /\ r.ok
             /\ bits' = [bits EXCEPT ![l] = r.bits]
      /\ thread' = [thread EXCEPT ![t].pc = "load"]
      /\ UNCHANGED <<handle, value, sum, proxy, acquired, cvars, xvars>>

(* operator reference() and the read of the built-in += *)
DoThreadLoad ==
    \E t \in ThreadIds :
      /\ thread[t].pc = "load"
      /\ thread' = [thread EXCEPT ![t].pc = "store", ![t].tmp = value]
      /\ UNCHANGED <<bits, handle, value, sum, proxy, acquired, cvars, xvars>>

(* the write of the built-in += *)
DoThreadStore ==
    \E t \in ThreadIds :
      /\ thread[t].pc = "store"
      /\ value' = thread[t].tmp + 1
      /\ thread' = [thread EXCEPT ![t].pc = "unlock", ![t].tmp = 0]
      /\ UNCHANGED <<bits, handle, sum, proxy, acquired, cvars, xvars>>

(* the RefHelper dies at the end of the statement: unlock(); ++j, ++i *)
DoThreadUnlock ==
    \E t \in ThreadIds :
      /\ thread[t].pc = "unlock"
      /\ LET l == handle[t].lck
         IN  bits' = [bits EXCEPT ![l] = unlock(@)]
      /\ LET th == thread[t]
         IN  thread' = [thread EXCEPT ![t] =
               IF th.j + 1 < MaxInner
               THEN [th EXCEPT !.pc = "lock", !.j = th.j + 1]
               ELSE IF th.i + 1 < MaxOuter
               THEN [th EXCEPT !.pc = "lock_shared", !.i = th.i + 1, !.j = 0]
               ELSE [th EXCEPT !.pc = "done", !.i = th.i + 1, !.j = 0]]
      /\ UNCHANGED <<handle, value, sum, proxy, acquired, cvars, xvars>>

(* The proxies.  A proxy is constructed by operator* or operator->, can be *)
(* moved from and assigned by move, and is destroyed once.                 *)
NoProxy == [st |-> "none", ptr |-> nullptr, constPtr |-> nullptr,
            lock_ |-> nullptr]

NotAcquired == [lck |-> nullptr, mode |-> "none"]

(* proxies are constructed in the order of their names *)
Fresh(p) ==
    /\ proxy[p].st = "none"
    /\ \A q \in Proxies : q < p => proxy[q].st # "none"

(* operator*() / operator->() of a mutable SafeSharedPtr:                  *)
(* RefHelper(SafeSharedPtr<T>& p) : ptr(&p) { ptr->lock(); }               *)
DoDeref ==
    \E p \in Proxies, h \in Handles :
      /\ Fresh(p)
      /\ LET l == handle[h].lck
             r == try_lock(bits[l])
         IN  /\ r.ok
             /\ bits' = [bits EXCEPT ![l] = r.bits]
             /\ proxy' = [proxy EXCEPT ![p] =
                            [NoProxy EXCEPT !.st = "live", !.ptr = h]]
             /\ acquired' = [acquired EXCEPT ![p] =
                               [lck |-> l, mode |-> "write"]]
      /\ UNCHANGED <<handle, value, sum, thread, cvars, xvars>>

(* operator*() const / operator->() const:                                 *)
(* RefHelper(const SafeSharedPtr<T>& p) : constPtr(&p)                     *)
(* { constPtr->lock_shared(); }, one try_lock_shared() of the loop         *)
DoDerefConst ==
    \E p \in Proxies, h \in Handles :
      /\ \/ Fresh(p)
         \/ proxy[p].st = "lock_shared" /\ h = proxy[p].constPtr
      /\ LET l == IF proxy[p].st = "lock_shared" THEN proxy[p].lock_
                  ELSE handle[h].lck
             r == try_lock_shared(bits[l])
         IN  /\ bits' = [bits EXCEPT ![l] = r.bits]
             /\ proxy' = [proxy EXCEPT ![p] =
                  IF r.ok
                  THEN [NoProxy EXCEPT !.st = "live", !.constPtr = h]
                  ELSE [NoProxy EXCEPT !.st = "lock_shared_fail",
                                       !.constPtr = h, !.lock_ = l]]
             /\ acquired' = [acquired EXCEPT ![p] =
                  IF r.ok THEN [lck |-> l, mode |-> "read"] ELSE NotAcquired]
      /\ UNCHANGED <<handle, value, sum, thread, cvars, xvars>>

(* the failed try_lock_shared() gives its READER back; lock_shared() loops *)
DoDerefConstFail ==
    \E p \in Proxies :
      /\ proxy[p].st = "lock_shared_fail"
      /\ bits' = [bits EXCEPT ![proxy[p].lock_] = try_lock_shared_fail(@)]
      /\ proxy' = [proxy EXCEPT ![p].st = "lock_shared"]
      /\ UNCHANGED <<handle, value, sum, thread, acquired, cvars, xvars>>

(* RefHelper(RefHelper&& other): std::swap(ptr, other.ptr);                *)
(* std::swap(constPtr, other.constPtr) into a proxy whose members are null *)
DoProxyMove ==
    \E p \in Proxies, other \in Proxies :
      /\ Fresh(p)
      /\ proxy[other].st = "live"
      /\ proxy' = [proxy EXCEPT
           ![p] = [NoProxy EXCEPT !.st = "live", !.ptr = proxy[other].ptr,
                                  !.constPtr = proxy[other].constPtr],
           ![other] = [proxy[other] EXCEPT !.ptr = nullptr,
                                           !.constPtr = nullptr]]
      /\ acquired' = [acquired EXCEPT ![p] = acquired[other],
                                      ![other] = NotAcquired]
      /\ UNCHANGED <<bits, handle, value, sum, thread, cvars, xvars>>

(* RefHelper& operator=(RefHelper&& other): the two proxies swap members *)
DoProxyMoveAssign ==
    \E p \in Proxies, other \in Proxies :
      /\ p # other
      /\ proxy[p].st = "live" /\ proxy[other].st = "live"
      /\ proxy' = [proxy EXCEPT ![p] = proxy[other], ![other] = proxy[p]]
      /\ acquired' = [acquired EXCEPT ![p] = acquired[other],
                                      ![other] = acquired[p]]
      /\ UNCHANGED <<bits, handle, value, sum, thread, cvars, xvars>>

(* ~RefHelper(): if (ptr) ptr->unlock();                                   *)
(* if (constPtr) constPtr->unlock_shared(); each goes through the lck the  *)
(* SafeSharedPtr holds now                                                 *)
DoProxyDestroy ==
    \E p \in Proxies :
      /\ proxy[p].st = "live"
      /\ LET b == IF proxy[p].ptr # nullptr
                  THEN [bits EXCEPT ![handle[proxy[p].ptr].lck] = unlock(@)]
                  ELSE bits
         IN  bits' = IF proxy[p].constPtr # nullptr
                     THEN [b EXCEPT ![handle[proxy[p].constPtr].lck] =
                                      unlock_shared(@)]
                     ELSE b
      /\ proxy' = [proxy EXCEPT ![p] = [NoProxy EXCEPT !.st = "dead"]]
      /\ acquired' = [acquired EXCEPT ![p] = NotAcquired]
      /\ UNCHANGED <<handle, value, sum, thread, cvars, xvars>>

(* SafeSharedPtr& operator=(const SafeSharedPtr& other):                   *)
(* SafeSharedPtr<T>(other).swap(this)                                      *)
DoPtrAssign ==
    \E h \in Handles, other \in Handles :
      /\ h # other
      /\ handle[h] # handle[other]
      /\ handle' = [handle EXCEPT ![h] = SafeSharedPtrCopy(handle[other])]
      /\ UNCHANGED <<bits, value, sum, thread, proxy, acquired, cvars, xvars>>

(* void swap(SafeSharedPtr& other): lck.swap(other.lck);                   *)
(* ptr.swap(other.ptr)                                                     *)
DoPtrSwap ==
    \E h \in Handles, other \in Handles :
      /\ h < other
      /\ handle[h] # handle[other]
      /\ handle' = [handle EXCEPT ![h] = handle[other],
                                  ![other] = handle[h]]
      /\ UNCHANGED <<bits, value, sum, thread, proxy, acquired, cvars, xvars>>

(* No pointer is in use: every SafeSharedPtr was constructed on its own *)
InitPtr(handles) ==
    /\ bits = [l \in Locks |-> 0]
    /\ handle \in handles
    /\ value = 0
    /\ sum = 0
    /\ thread = [t \in ThreadIds |-> ThreadStart]
    /\ proxy = [p \in Proxies |-> NoProxy]
    /\ acquired = [p \in Proxies |-> NotAcquired]

Separate == {[h \in Handles |-> SafeSharedPtrNew(h, h)]}

----------------------------------------------------------------------------
(***************************************************************************)
(* Memory::RWSpinLock called directly: every thread of LockThreads calls   *)
(* the members of one lock, bits[1].  held is the mode the thread's calls  *)
(* have returned to it, pc the call it is inside, failed whether one of    *)
(* its try calls has returned false.                                       *)
(***************************************************************************)

MaxLockThreads == 3

LockThreads == 1..MaxLockThreads

(* the bit test value & bit on the two's complement lock word *)
HasBit(b, bit) == (b \div bit) % 2 = 1

(* std::atomic::fetch_or(bit): the value afterwards *)
fetch_or(b, bit) == IF HasBit(b, bit) THEN b ELSE b + bit

(* try_lock_upgrade() that only looks for a writer *)
try_lock_upgrade_IgnoresUpgraded(b) ==
    [ok |-> ~HasBit(b, WRITER), bits |-> fetch_or(b, UPGRADED)]

(* RWSpinLock::try_lock_upgrade(): fetch_or(UPGRADED); the bit is not      *)
(* flipped back when the call fails                                        *)
try_lock_upgrade(b) ==
    [ok |-> ExclusiveBits(b) = 0, bits |-> fetch_or(b, UPGRADED)]

(* RWSpinLock::unlock_upgrade(): fetch_add(-UPGRADED) *)
unlock_upgrade(b) == b - UPGRADED

(* RWSpinLock::try_unlock_upgrade_and_lock():                              *)
(* compare_exchange_strong(UPGRADED, WRITER)                               *)
try_unlock_upgrade_and_lock(b) ==
    IF b = UPGRADED THEN [ok |-> TRUE, bits |-> WRITER]
    ELSE [ok |-> FALSE, bits |-> b]

(* RWSpinLock::unlock_upgrade_and_lock_shared():                           *)
(* fetch_add(READER - UPGRADED)                                            *)
unlock_upgrade_and_lock_shared(b) == b + READER - UPGRADED

(* RWSpinLock::unlock_and_lock_shared(), its first step: fetch_add(READER) *)
(* its second step is unlock()                                             *)
unlock_and_lock_shared(b) == b + READER

(* unlock_and_lock_upgrade() that does not set UPGRADED before it drops    *)
(* WRITER                                                                  *)
unlock_and_lock_upgrade_NoBit(b) == b

(* RWSpinLock::unlock_and_lock_upgrade(), its first step:                  *)
(* fetch_or(UPGRADED)                                                      *)
unlock_and_lock_upgrade(b) == fetch_or(b, UPGRADED)

(* RWSpinLock::unlock_and_lock_upgrade(), its second step:                 *)
(* fetch_add(-WRITER)                                                      *)
unlock_and_lock_upgrade_end(b) == b - WRITER

LockerIdle == [pc |-> "idle", held |-> "none", failed |-> FALSE]

TheLock == 1

SetBits(b) == bits' = [bits EXCEPT ![TheLock] = b]

SetLocker(t, pc, held) ==
    locker' = [locker EXCEPT ![t].pc = pc, ![t].held = held]

LockerKeeps == UNCHANGED <<handle, value, sum, thread, proxy, acquired,
                           nest, weak, object, ratio, cvars>>

(* lock(): the thread enters the loop while (!try_lock()) *)
DoLock ==
    \E t \in LockThreads :
      /\ locker[t] = [LockerIdle EXCEPT !.failed = locker[t].failed]
      /\ SetLocker(t, "lock", "none")
      /\ UNCHANGED bits
      /\ LockerKeeps

(* try_lock(), called directly or by lock(), succeeds; a failed            *)
(* compare_exchange_strong changes nothing                                 *)
DoTryLock ==
    \E t \in LockThreads :
      /\ locker[t].pc \in {"idle", "lock"} /\ locker[t].held = "none"
      /\ LET r == try_lock(bits[TheLock])
         IN  /\ r.ok
             /\ SetBits(r.bits)
      /\ SetLocker(t, "idle", "write")
      /\ LockerKeeps

(* unlock() *)
DoUnlock ==
    \E t \in LockThreads :
      /\ locker[t].pc = "idle" /\ locker[t].held = "write"
      /\ SetBits(unlock(bits[TheLock]))
      /\ SetLocker(t, "idle", "none")
      /\ LockerKeeps

(* lock_shared(): the thread enters the loop while (!try_lock_shared()) *)
DoLockShared ==
    \E t \in LockThreads :
      /\ locker[t].pc = "idle" /\ locker[t].held = "none"
      /\ SetLocker(t, "lock_shared", "none")
      /\ UNCHANGED bits
      /\ LockerKeeps

(* try_lock_shared(), called directly or by lock_shared(): fetch_add *)
DoTryLockShared ==
    \E t \in LockThreads :
      /\ locker[t].pc \in {"idle", "lock_shared"} /\ locker[t].held = "none"
      /\ LET r == try_lock_shared(bits[TheLock])
         IN  /\ SetBits(r.bits)
             /\ locker' = [locker EXCEPT ![t] =
                  IF r.ok THEN [@ EXCEPT !.pc = "idle", !.held = "shared"]
                  ELSE [@ EXCEPT !.pc = IF @ = "idle"
                                        THEN "try_lock_shared_fail"
                                        ELSE "lock_shared_fail",
                                 !.failed = TRUE]]
      /\ LockerKeeps

(* the failed try_lock_shared() takes its READER back and returns false *)
DoTryLockSharedFail ==
    \E t \in LockThreads :
      /\ locker[t].pc \in {"try_lock_shared_fail", "lock_shared_fail"}
      /\ SetBits(try_lock_shared_fail(bits[TheLock]))
      /\ SetLocker(t, IF locker[t].pc = "lock_shared_fail"
                      THEN "lock_shared" ELSE "idle", "none")
      /\ LockerKeeps

(* unlock_shared() *)
DoUnlockShared ==
    \E t \in LockThreads :
      /\ locker[t].pc = "idle" /\ locker[t].held = "shared"
      /\ SetBits(unlock_shared(bits[TheLock]))
      /\ SetLocker(t, "idle", "none")
      /\ LockerKeeps

(* lock_upgrade(): the thread enters the loop while (!try_lock_upgrade()) *)
DoLockUpgrade ==
    \E t \in LockThreads :
      /\ locker[t].pc = "idle" /\ locker[t].held = "none"
      /\ SetLocker(t, "lock_upgrade", "none")
      /\ UNCHANGED bits
      /\ LockerKeeps

(* try_lock_upgrade(), called directly or by lock_upgrade(): fetch_or *)
DoTryLockUpgrade ==
    \E t \in LockThreads :
      /\ locker[t].pc \in {"idle", "lock_upgrade"} /\ locker[t].held = "none"
      /\ LET r == try_lock_upgrade(bits[TheLock])
         IN  /\ SetBits(r.bits)
             /\ locker' = [locker EXCEPT ![t] =
                  IF r.ok THEN [@ EXCEPT !.pc = "idle", !.held = "upgrade"]
                  ELSE [@ EXCEPT !.failed = TRUE]]
      /\ LockerKeeps

(* unlock_upgrade() *)
DoUnlockUpgrade ==
    \E t \in LockThreads :
      /\ locker[t].pc = "idle" /\ locker[t].held = "upgrade"
      /\ SetBits(unlock_upgrade(bits[TheLock]))
      /\ SetLocker(t, "idle", "none")
      /\ LockerKeeps

(* unlock_upgrade_and_lock(): the thread enters the loop                   *)
(* while (!try_unlock_upgrade_and_lock())                                  *)
DoUnlockUpgradeAndLock ==
    \E t \in LockThreads :
      /\ locker[t].pc = "idle" /\ locker[t].held = "upgrade"
      /\ SetLocker(t, "unlock_upgrade_and_lock", "upgrade")
      /\ UNCHANGED bits
      /\ LockerKeeps

(* try_unlock_upgrade_and_lock(), called directly or by                    *)
(* unlock_upgrade_and_lock(), succeeds; a failed compare_exchange_strong   *)
(* changes nothing                                                         *)
DoTryUnlockUpgradeAndLock ==
    \E t \in LockThreads :
      /\ locker[t].pc \in {"idle", "unlock_upgrade_and_lock"}
      /\ locker[t].held = "upgrade"
      /\ LET r == try_unlock_upgrade_and_lock(bits[TheLock])
         IN  /\ r.ok
             /\ SetBits(r.bits)
      /\ SetLocker(t, "idle", "write")
      /\ LockerKeeps

(* unlock_upgrade_and_lock_shared() *)
DoUnlockUpgradeAndLockShared ==
    \E t \in LockThreads :
      /\ locker[t].pc = "idle" /\ locker[t].held = "upgrade"
      /\ SetBits(unlock_upgrade_and_lock_shared(bits[TheLock]))
      /\ SetLocker(t, "idle", "shared")
      /\ LockerKeeps

(* unlock_and_lock_shared(): fetch_add(READER) *)
DoUnlockAndLockShared ==
    \E t \in LockThreads :
      /\ locker[t].pc = "idle" /\ locker[t].held = "write"
      /\ SetBits(unlock_and_lock_shared(bits[TheLock]))
      /\ SetLocker(t, "unlock_and_lock_shared", "write")
      /\ LockerKeeps

(* unlock_and_lock_shared(): unlock() *)
DoUnlockAndLockSharedEnd ==
    \E t \in LockThreads :
      /\ locker[t].pc = "unlock_and_lock_shared"
      /\ SetBits(unlock(bits[TheLock]))
      /\ SetLocker(t, "idle", "shared")
      /\ LockerKeeps

(* unlock_and_lock_upgrade(): fetch_or(UPGRADED) *)
DoUnlockAndLockUpgrade ==
    \E t \in LockThreads :
      /\ locker[t].pc = "idle" /\ locker[t].held = "write"
      /\ SetBits(unlock_and_lock_upgrade(bits[TheLock]))
      /\ SetLocker(t, "unlock_and_lock_upgrade", "write")
      /\ LockerKeeps

(* unlock_and_lock_upgrade(): fetch_add(-WRITER) *)
DoUnlockAndLockUpgradeEnd ==
    \E t \in LockThreads :
      /\ locker[t].pc = "unlock_and_lock_upgrade"
      /\ SetBits(unlock_and_lock_upgrade_end(bits[TheLock]))
      /\ SetLocker(t, "idle", "upgrade")
      /\ LockerKeeps

(* No thread has called the lock *)
InitLocker == locker = [t \in LockThreads |-> LockerIdle]

----------------------------------------------------------------------------
(***************************************************************************)
(* Two dereferences in one expression, p->x() + q->y(): each operator->    *)
(* builds a PtrHelper that calls lock() on the pointer's ReadWriteLock and *)
(* both temporaries live to the end of the expression.  ReadWriteLock is   *)
(* RWSpinLock before C++17 and std::shared_mutex from C++17 on.            *)
(***************************************************************************)

MaxNestThreads == 2
MaxSpin == 2

NestThreads == 1..MaxNestThreads

Builds == {"RWSpinLock", "shared_mutex"}

NoNest == [build |-> "none", ended |-> FALSE, th |-> <<>>]

(* the lock the PtrHelper under construction is about to take *)
NestLock(t) ==
    LET n == nest.th[t]
    IN  handle[IF n.pc = "lock1" THEN n.first ELSE n.second].lck

(* the thread's live PtrHelpers have locked l *)
Owns(t, l) ==
    LET n == nest.th[t]
    IN  \/ n.pc \in {"lock2", "both", "one"} /\ handle[n.first].lck = l
        \/ n.pc = "both" /\ handle[n.second].lck = l

NestStep(t, pc, spins) ==
    nest' = [nest EXCEPT !.th[t].pc = pc, !.th[t].spins = spins]

NestKeeps == UNCHANGED <<handle, value, sum, thread, proxy, acquired,
                         locker, weak, object, ratio, cvars>>

(* PtrHelper(SafeSharedPtr<T>&): ptr->lock().  RWSpinLock::lock() tries    *)
(* compare_exchange_strong(0, WRITER) and counts the failures;             *)
(* std::shared_mutex::lock() returns once no thread owns the mutex and is  *)
(* defined only when the caller does not own it                            *)
DoNestLock ==
    \E t \in NestThreads :
      LET n == nest.th[t]
          l == NestLock(t)
          r == try_lock(bits[l])
          next == IF n.pc = "lock1" THEN "lock2" ELSE "both"
      IN  /\ ~nest.ended
          /\ n.pc \in {"lock1", "lock2"}
          /\ IF nest.build = "RWSpinLock"
             THEN IF r.ok
                  THEN /\ bits' = [bits EXCEPT ![l] = r.bits]
                       /\ NestStep(t, next, 0)
                  ELSE /\ n.spins < MaxSpin
                       /\ NestStep(t, n.pc, n.spins + 1)
                       /\ UNCHANGED bits
             ELSE /\ ~Owns(t, l)
                  /\ r.ok
                  /\ bits' = [bits EXCEPT ![l] = r.bits]
                  /\ NestStep(t, next, 0)
          /\ NestKeeps

(* std::shared_mutex::lock() by the thread that owns the mutex is          *)
(* undefined: the call either never returns, which is no step, or throws   *)
(* std::system_error(resource_deadlock_would_occur) as libstdc++ does,     *)
(* and the exception leaving the noexcept operator-> calls std::terminate  *)
DoNestTerminate ==
    \E t \in NestThreads :
      /\ ~nest.ended
      /\ nest.build = "shared_mutex"
      /\ nest.th[t].pc = "lock2"
      /\ Owns(t, NestLock(t))
      /\ nest' = [nest EXCEPT !.ended = TRUE]
      /\ UNCHANGED bits
      /\ NestKeeps

(* ~PtrHelper at the end of the expression: ptr->unlock(), the second      *)
(* temporary first                                                         *)
DoNestUnlock ==
    \E t \in NestThreads :
      LET n == nest.th[t]
          l == handle[IF n.pc = "both" THEN n.second ELSE n.first].lck
      IN  /\ ~nest.ended
          /\ n.pc \in {"both", "one"}
          /\ bits' = [bits EXCEPT ![l] = unlock(bits[l])]
          /\ NestStep(t, IF n.pc = "both" THEN "one" ELSE "done", 0)
          /\ NestKeeps

(* Every thread is about to evaluate its expression *)
InitNest ==
    nest \in [build : Builds, ended : {FALSE},
              th : [NestThreads -> [pc : {"lock1"}, first : Handles,
                                    second : Handles, spins : {0}]]]

----------------------------------------------------------------------------
(***************************************************************************)
(* SafeWeakPtr::lock() beside the owners of the object: every owner thread *)
(* holds one SafeSharedPtr to the object and may reset it, every locking   *)
(* thread calls lock() on a SafeWeakPtr to the object.  use_count is the   *)
(* control block's count of owners.                                        *)
(***************************************************************************)

MaxOwners == 2
MaxWeakThreads == 3

Owners == 1..MaxOwners

WeakThreads == 1..MaxWeakThreads

NoWeak == [use_count |-> 0, ended |-> FALSE, owns |-> <<>>, th |-> <<>>]

WeakKeeps == UNCHANGED <<svars, locker, nest, object, ratio, cvars>>

(* SafeSharedPtr::reset() of an owner: the count drops, at 0 the object is *)
(* destroyed                                                               *)
DoOwnerReset ==
    \E o \in Owners :
      /\ ~weak.ended
      /\ weak.owns[o]
      /\ weak' = [weak EXCEPT !.owns[o] = FALSE, !.use_count = @ - 1]
      /\ WeakKeeps

(* lock(): expired() reads use_count() == 0; when it is true the result is *)
(* SafeSharedPtr<T>()                                                      *)
DoWeakExpired ==
    \E t \in WeakThreads :
      /\ ~weak.ended
      /\ weak.th[t].pc = "lock"
      /\ weak' = [weak EXCEPT !.th[t] =
                    IF weak.use_count = 0
                    THEN [pc |-> "returned", result |-> "empty"]
                    ELSE [pc |-> "construct", result |-> "none"]]
      /\ WeakKeeps

(* lock(): the SafeSharedPtr<T> built from the SafeWeakPtr builds its     *)
(* std::shared_ptr<T> from the std::weak_ptr, which adds an owner unless   *)
(* the count is 0 and then                                                 *)
(* throws std::bad_weak_ptr; lock() is noexcept, so the exception calls    *)
(* std::terminate                                                          *)
DoWeakConstruct ==
    \E t \in WeakThreads :
      /\ ~weak.ended
      /\ weak.th[t].pc = "construct"
      /\ weak' = IF weak.use_count = 0
                 THEN [weak EXCEPT !.ended = TRUE]
                 ELSE [weak EXCEPT !.use_count = @ + 1,
                                   !.th[t] = [pc |-> "returned",
                                              result |-> "shared"]]
      /\ WeakKeeps

(* the SafeSharedPtr lock() returned is destroyed and the thread calls     *)
(* lock() again                                                            *)
DoWeakResultDestroy ==
    \E t \in WeakThreads :
      /\ ~weak.ended
      /\ weak.th[t].pc = "returned"
      /\ weak' = [weak EXCEPT
                    !.use_count = IF weak.th[t].result = "shared"
                                  THEN @ - 1 ELSE @,
                    !.th[t] = [pc |-> "lock", result |-> "none"]]
      /\ WeakKeeps

(* Some owners still hold the object, every locking thread is about to     *)
(* call lock()                                                             *)
InitWeak ==
    \E owns \in [Owners -> BOOLEAN] :
      weak = [use_count |-> Cardinality({o \in Owners : owns[o]}),
              ended |-> FALSE,
              owns |-> owns,
              th |-> [t \in WeakThreads |-> [pc |-> "lock",
                                             result |-> "none"]]]

----------------------------------------------------------------------------
(***************************************************************************)
(* The ways a SafeSharedPtr comes to own an object.  Every object is owned *)
(* by a std::shared_ptr of the caller; an object whose class derives from  *)
(* EnableSafeSharedFromThis carries a lock, __safeSharedLock.  handle[h]   *)
(* is a SafeSharedPtr variable, ptr the object it owns.                    *)
(***************************************************************************)

MaxObjects == 2

Objects == 1..MaxObjects

(* the locks std::make_shared<ReadWriteLock>() can return *)
OwnLocks == 1..(MaxHandles + MaxObjects + 1)

NoObjects == <<>>

LocksInUse ==
    {handle[h].lck : h \in Handles} \cup {object[o].lock : o \in Objects}

(* std::make_shared<ReadWriteLock>(): a lock no pointer or object refers   *)
(* to                                                                      *)
NewLock == CHOOSE l \in OwnLocks \ LocksInUse :
              \A k \in OwnLocks \ LocksInUse : l <= k

(* SafeSharedPtr(): lck(std::make_shared<ReadWriteLock>()), no object *)
SafeSharedPtrEmpty == [lck |-> NewLock, ptr |-> nullptr]

(* SafeSharedPtr(const std::shared_ptr<Y>& other): a new lock, or the      *)
(* object's __safeSharedLock when Y derives from EnableSafeSharedFromThis  *)
SafeSharedPtrFromShared(o) ==
    [lck |-> IF object[o].enabled THEN object[o].lock ELSE NewLock,
     ptr |-> o]

OwnKeeps == UNCHANGED <<bits, value, sum, thread, proxy, acquired,
                        locker, nest, weak, ratio, cvars>>

(* h = SafeSharedPtr<T>(sp) for the caller's std::shared_ptr sp to o *)
DoFromSharedPtr ==
    \E h \in Handles, o \in Objects :
      /\ handle' = [handle EXCEPT ![h] = SafeSharedPtrFromShared(o)]
      /\ UNCHANGED object
      /\ OwnKeeps

(* SafeSharedPtr(SafeSharedPtr<T>&& other): lck and ptr are moved out of   *)
(* other, which keeps neither                                              *)
DoPtrMoveConstruct ==
    \E h \in Handles, other \in Handles :
      /\ h # other
      /\ handle[other].lck # nullptr
      /\ handle' = [handle EXCEPT ![h] = handle[other],
                                  ![other] = [lck |-> nullptr,
                                              ptr |-> nullptr]]
      /\ UNCHANGED object
      /\ OwnKeeps

(* SafeSharedPtr(const SafeSharedPtr<Y>& other, U* p), which the pointer   *)
(* casts call: lck(other.lck), ptr(other.ptr, p) shares other's object     *)
DoAlias ==
    \E h \in Handles, other \in Handles :
      /\ h # other
      /\ handle[other].ptr # nullptr
      /\ handle' = [handle EXCEPT ![h] = [lck |-> handle[other].lck,
                                          ptr |-> handle[other].ptr]]
      /\ UNCHANGED object
      /\ OwnKeeps

(* h = SafeWeakPtr<T>(other).lock(): the weak pointer copies other.lck and *)
(* other.ptr, lock() returns SafeSharedPtr<T>() when it has expired and a  *)
(* SafeSharedPtr with the weak pointer's lck and ptr otherwise             *)
DoWeakLock ==
    \E h \in Handles, other \in Handles :
      /\ h # other
      /\ handle[other].lck # nullptr
      /\ handle' = [handle EXCEPT ![h] =
                      IF handle[other].ptr = nullptr
                      THEN SafeSharedPtrEmpty
                      ELSE [lck |-> handle[other].lck,
                            ptr |-> handle[other].ptr]]
      /\ UNCHANGED object
      /\ OwnKeeps

(* h = o.shared_from_this() of an object a SafeSharedPtr owns:             *)
(* SafeSharedPtr<T>(__safeSharedLock, shared_from_this())                  *)
DoSharedFromThis ==
    \E h \in Handles, o \in Objects :
      /\ object[o].enabled
      /\ \E g \in Handles : handle[g].ptr = o
      /\ handle' = [handle EXCEPT ![h] = [lck |-> object[o].lock, ptr |-> o]]
      /\ UNCHANGED object
      /\ OwnKeeps

(* EnableSafeSharedFromThis::operator=(const EnableSafeSharedFromThis&),   *)
(* run by the assignment of one object to another:                         *)
(* __safeSharedLock = other.__safeSharedLock                               *)
DoObjectAssign ==
    \E o \in Objects, other \in Objects :
      /\ object[o].enabled /\ object[other].enabled
      /\ object[o].lock # object[other].lock
      /\ object' = [object EXCEPT ![o].lock = object[other].lock]
      /\ UNCHANGED handle
      /\ OwnKeeps

(* reset(): SafeSharedPtr<T>().swap(this) *)
DoReset ==
    \E h \in Handles :
      /\ handle[h].ptr # nullptr
      /\ handle' = [handle EXCEPT ![h] = SafeSharedPtrEmpty]
      /\ UNCHANGED object
      /\ OwnKeeps

(* Every object is constructed, with its own __safeSharedLock if its class *)
(* derives from EnableSafeSharedFromThis                                   *)
InitObjects ==
    \E enabled \in [Objects -> BOOLEAN] :
      object = [o \in Objects |->
                  [enabled |-> enabled[o],
                   lock |-> IF enabled[o] THEN o ELSE nullptr]]

(* Every SafeSharedPtr is default constructed *)
Empties == {[h \in Handles |-> [lck |-> MaxObjects + h, ptr |-> nullptr]]}

----------------------------------------------------------------------------
(***************************************************************************)
(* approximateRatio(long double value, int n).  A long double is a binary  *)
(* floating point number; the model keeps Precision significant bits       *)
(* instead of 64 and rounds every result to the nearest such number, ties  *)
(* to even, as the hardware does.  A number is held as the integer         *)
(* number * 2^GridBits, which is exact for every number that occurs.       *)
(***************************************************************************)

Precision == 9
MaxNum == 30
MaxDigits == 2

RECURSIVE BitLen(_)
(* the number of binary digits of k >= 0 *)
BitLen(k) == IF k = 0 THEN 0 ELSE 1 + BitLen(k \div 2)

RECURSIVE TwoPart(_)
(* how often 2 divides k > 0 *)
TwoPart(k) == IF k % 2 = 1 THEN 0 ELSE 1 + TwoPart(k \div 2)

(* the smallest value, 10^-MaxDigits, has its last bit on the grid *)
GridBits == Precision - 1 + BitLen(10 ^ MaxDigits)

One == 2 ^ GridBits

Abs(k) == IF k < 0 THEN 0 - k ELSE k

Sign(k) == IF k < 0 THEN 0 - 1 ELSE 1

(* num / den >= 0 rounded to the nearest integer, ties to even *)
RoundEven(num, den) ==
    LET f == num \div den
        r == 2 * (num % den)
    IN  IF r > den \/ (r = den /\ f % 2 = 1) THEN f + 1 ELSE f

(* the floating point number nearest to the exact result k *)
RoundToNearest(k) ==
    LET len == BitLen(Abs(k))
        ulp == 2 ^ (len - Precision)
    IN  IF len <= Precision THEN k
        ELSE Sign(k) * RoundEven(Abs(k), ulp) * ulp

(* the long double the decimal literal k / 10^n denotes *)
Literal(k, n) ==
    LET num == Abs(k) * One
        den == 10 ^ n
        ulp == 2 ^ (BitLen(num \div den) - Precision)
    IN  IF k = 0 THEN 0
        ELSE Sign(k) * RoundEven(num, den * ulp) * ulp

(* int(c): the fraction is dropped *)
ToInt(c) == Sign(c) * (Abs(c) \div One)

(* intmax_t(std::round(x / b)): the quotient is rounded to a floating      *)
(* point number by the division and then to the nearest integer, halves    *)
(* away from zero                                                          *)
RoundedQuotient(x, b) ==
    LET t == IF TwoPart(Abs(x)) < TwoPart(Abs(b))
             THEN TwoPart(Abs(x)) ELSE TwoPart(Abs(b))
        num == Abs(x) \div (2 ^ t)
        den == Abs(b) \div (2 ^ t)
        len == BitLen(num \div den)
        ulp == 2 ^ (len - Precision)
        u == CHOOSE i \in 1..(Precision + 2) :
                 BitLen((num * (2 ^ i)) \div den) = Precision
        mant == RoundEven(num * (2 ^ u), den)
    IN  IF x = 0 \/ 4 * num < den THEN 0
        ELSE IF len >= Precision
        THEN Sign(x) * Sign(b) * RoundEven(num, den * ulp) * ulp
        ELSE Sign(x) * Sign(b) * ((mant + 2 ^ (u - 1)) \div (2 ^ u))

NoRatio == [pc |-> "none"]

RatioKeeps == UNCHANGED <<svars, locker, nest, weak, object, cvars>>

(* den = pow(10, n); num = value * pow(10, n); gcd(num, den) starts with   *)
(* a = x, b = y and calls mod(a, b)                                        *)
DoRatioCall ==
    /\ ratio.pc = "call"
    /\ LET den == RoundToNearest((10 ^ ratio.n) * One)
           num == RoundToNearest(ratio.value * (10 ^ ratio.n))
       IN  ratio' = [ratio EXCEPT !.pc = "mod_test", !.x = num, !.y = den,
                                  !.a = num, !.b = den, !.mod_a = num]
    /\ RatioKeeps

(* mod: while (a >= b); at the exit c = the value returned *)
DoModTest ==
    /\ ratio.pc = "mod_test"
    /\ ratio' = IF ratio.mod_a >= ratio.b
                THEN [ratio EXCEPT !.pc = "mod_sub"]
                ELSE [ratio EXCEPT !.pc = "gcd_test", !.c = ratio.mod_a]
    /\ RatioKeeps

(* mod: a -= b *)
DoModSub ==
    /\ ratio.pc = "mod_sub"
    /\ ratio' = [ratio EXCEPT !.pc = "mod_test",
                              !.mod_a = RoundToNearest(@ - ratio.b)]
    /\ RatioKeeps

(* gcd: while (int(c) != 0) { a = b; b = c; c = mod(a, b); } *)
DoGcdTest ==
    /\ ratio.pc = "gcd_test"
    /\ ratio' = IF ToInt(ratio.c) # 0
                THEN [ratio EXCEPT !.pc = "mod_test", !.a = ratio.b,
                                   !.b = ratio.c, !.mod_a = ratio.b]
                ELSE [ratio EXCEPT !.pc = "return"]
    /\ RatioKeeps

(* gcd returns (x / b, y / b), approximateRatio the two rounded *)
DoRatioReturn ==
    /\ ratio.pc = "return"
    /\ ratio' = [ratio EXCEPT !.pc = "done",
                              !.first = RoundedQuotient(ratio.x, ratio.b),
                              !.second = RoundedQuotient(ratio.y, ratio.b)]
    /\ RatioKeeps

(* approximateRatio(k / 10^n, n) is called with a decimal literal *)
InitRatio ==
    \E k \in (0 - MaxNum)..MaxNum, n \in 0..MaxDigits :
      ratio = [pc |-> "call", k |-> k, n |-> n, value |-> Literal(k, n),
               x |-> 0, y |-> 0, a |-> 0, b |-> 0, c |-> 0, mod_a |-> 0,
               first |-> 0, second |-> 0]

(* Outside their own specifications the later parts stay as constructed *)
InitRest ==
    /\ InitLocker
    /\ nest = NoNest
    /\ weak = NoWeak
    /\ object = NoObjects
    /\ ratio = NoRatio

(* The container after construction *)
InitWith(orders) ==
    /\ comp \in orders
    /\ v = <<>>
    /\ m = EmptyMap
    /\ ub = FALSE
    /\ op = Idle
    /\ ret = NullIt
    /\ prev = Cont(<<>>, EmptyMap)
    /\ order = <<>>
    /\ appendOnly = TRUE

Init == InitWith(TotalOrders) /\ InitPtr(Separate) /\ InitRest

Next ==
    \/ DoClear
    \/ DoPushBack
    \/ DoEmplaceBack
    \/ DoIndex
    \/ DoPushBackRange
    \/ DoInsert
    \/ DoEmplaceAt
    \/ DoPopBack
    \/ DoEraseKey
    \/ DoEraseIt
    \/ DoEraseRange
    \/ DoErasePos
    \/ DoWriteAt
    \/ DoWriteIt
    \/ DoWriteIndex
    \/ DoWriteFind
    \/ DoAt
    \/ DoValue
    \/ DoIndexConst
    \/ DoEquals
    \/ DoNotEquals
    \/ DoSerialize
    \/ DoDeserialize
    \/ DoConstructRange
    \/ DoCopyConstruct
    \/ DoPtrMoveConstruct
    \/ DoModifyCopy
    \/ DoPlusAssign
    \/ DoPlus
    \/ DoInsertRange
    \/ DoMid
    \/ DoMidFrom
    \/ DoFind
    \/ DoContains
    \/ DoKey
    \/ DoIterators
    \/ DoSwap
    \/ DoSwapAgain
    \/ DoCopyAssign
    \/ DoCopyAssignSelf
    \/ DoMoveAssign
    \/ DoPushBackAgain
    \/ DoEraseInserted
    \/ EndCall

Spec == Init /\ [][Next]_vars

(* The container together with the non-member std::erase_if *)
NextEraseIf == Next \/ DoEraseIf

SpecEraseIf == Init /\ [][NextEraseIf]_vars

(* The same container instantiated with any strict weak order as Compare *)
InitCompare == InitWith(WeakOrders) /\ InitPtr(Separate) /\ InitRest

SpecCompare == InitCompare /\ [][Next]_vars

(* TEST(SafeSharedPtr, concurrent): SafeSharedPtr<int> ptr(new int(0)) and *)
(* the copy of it that the std::thread receives                            *)
TestPtr == SafeSharedPtrNew(1, 1)

Copies ==
    {[h \in Handles |-> IF h = 1 THEN TestPtr ELSE SafeSharedPtrCopy(TestPtr)]}

InitConcurrent == InitWith(TotalOrders) /\ InitPtr(Copies) /\ InitRest

NextConcurrent ==
    \/ DoThreadLockShared
    \/ DoThreadLockSharedFail
    \/ DoThreadRead
    \/ DoThreadUnlockShared
    \/ DoThreadLock
    \/ DoThreadLoad
    \/ DoThreadStore
    \/ DoThreadUnlock

SpecConcurrent == InitConcurrent /\ [][NextConcurrent]_vars

(* Pointers, constructed on their own or as copies of one another, and the *)
(* proxies their dereferences return                                       *)
Shared == [Handles -> {SafeSharedPtrNew(l, l) : l \in Locks}]

InitProxy == InitWith(TotalOrders) /\ InitPtr(Shared) /\ InitRest

NextProxy ==
    \/ DoDeref
    \/ DoDerefConst
    \/ DoDerefConstFail
    \/ DoProxyMove
    \/ DoProxyMoveAssign
    \/ DoProxyDestroy
    \/ DoPtrAssign
    \/ DoPtrSwap

SpecProxy == InitProxy /\ [][NextProxy]_vars

(* Threads calling one RWSpinLock directly *)
InitLock ==
    /\ InitWith(TotalOrders) /\ InitPtr(Separate)
    /\ InitLocker
    /\ nest = NoNest
    /\ weak = NoWeak
    /\ object = NoObjects
    /\ ratio = NoRatio

NextLock ==
    \/ DoLock
    \/ DoTryLock
    \/ DoUnlock
    \/ DoLockShared
    \/ DoTryLockShared
    \/ DoTryLockSharedFail
    \/ DoUnlockShared
    \/ DoLockUpgrade
    \/ DoTryLockUpgrade
    \/ DoUnlockUpgrade
    \/ DoUnlockUpgradeAndLock
    \/ DoTryUnlockUpgradeAndLock
    \/ DoUnlockUpgradeAndLockShared
    \/ DoUnlockAndLockShared
    \/ DoUnlockAndLockSharedEnd
    \/ DoUnlockAndLockUpgrade
    \/ DoUnlockAndLockUpgradeEnd

SpecLock == InitLock /\ [][NextLock]_vars

(* Threads that dereference twice in one expression *)
InitNested ==
    /\ InitWith(TotalOrders) /\ InitPtr(Shared)
    /\ InitLocker
    /\ InitNest
    /\ weak = NoWeak
    /\ object = NoObjects
    /\ ratio = NoRatio

NextNested ==
    \/ DoNestLock
    \/ DoNestTerminate
    \/ DoNestUnlock

SpecNested == InitNested /\ [][NextNested]_vars

(* Threads locking a SafeWeakPtr while the owners let go *)
InitWeakLock ==
    /\ InitWith(TotalOrders) /\ InitPtr(Separate)
    /\ InitLocker
    /\ nest = NoNest
    /\ InitWeak
    /\ object = NoObjects
    /\ ratio = NoRatio

NextWeakLock ==
    \/ DoOwnerReset
    \/ DoWeakExpired
    \/ DoWeakConstruct
    \/ DoWeakResultDestroy

SpecWeakLock == InitWeakLock /\ [][NextWeakLock]_vars

(* SafeSharedPtr variables constructed and assigned in every way *)
InitOwnership ==
    /\ InitWith(TotalOrders) /\ InitPtr(Empties)
    /\ InitLocker
    /\ nest = NoNest
    /\ weak = NoWeak
    /\ InitObjects
    /\ ratio = NoRatio

NextOwnership ==
    \/ DoFromSharedPtr
    \/ DoPtrAssign
    \/ DoPtrMoveConstruct
    \/ DoAlias
    \/ DoWeakLock
    \/ DoSharedFromThis
    \/ DoObjectAssign
    \/ DoPtrSwap
    \/ DoReset

SpecOwnership == InitOwnership /\ [][NextOwnership]_vars

(* One call of approximateRatio *)
InitRatios ==
    /\ InitWith(TotalOrders) /\ InitPtr(Separate)
    /\ InitLocker
    /\ nest = NoNest
    /\ weak = NoWeak
    /\ object = NoObjects
    /\ InitRatio

NextRatio ==
    \/ DoRatioCall
    \/ DoModTest
    \/ DoModSub
    \/ DoGcdTest
    \/ DoRatioReturn

SpecRatio == InitRatios /\ [][NextRatio]_vars

(* The call is the only thing running: its next statement is executed *)
FairRatio == SpecRatio /\ WF_vars(NextRatio)

----------------------------------------------------------------------------
(* Observers *)

(* Container keys() const *)
KeysOf(c) == [i \in 1..Size(c) |-> c.v[i]]

(* Container values() const *)
ValuesOf(c) == [i \in 1..Size(c) |-> c.m[c.v[i]]]

(* The two indexes describe the same entries *)
Consistent(c) ==
    /\ Len(c.v) = Cardinality(DOMAIN c.m)
    /\ \A i \in 1..Len(c.v) : c.v[i] \in DOMAIN c.m
    /\ \A i, j \in 1..Len(c.v) : i # j => c.v[i] # c.v[j]
    /\ Size(c) = Cardinality(Range(c.v))

----------------------------------------------------------------------------
(* Properties *)

(* C1: after every public mutating operation v and m hold the same number  *)
(* of elements, every element of v is a handle to an entry currently in m, *)
(* no two positions of v refer to the same key, and size() is the number   *)
(* of distinct live keys; after swap and move assignment the same holds of *)
(* the other operand.  Compare is a strict total order on Key.             *)
C1_IndexesConsistent ==
    /\ ~ub
    /\ Consistent(This)
    /\ op.name \in {"swap", "move_assign"} => Consistent(ret.other)

C1_Witness ==
    /\ op.name = "erase_it"
    /\ op.pos = 0
    /\ Len(prev.v) = MaxKey
    /\ Len(v) = MaxKey - 1

(* C2 as stated: for any map, key k and values v1, v2, push_back(k, v1)   *)
(* followed by push_back(k, v2) leaves the value stored for k equal to v1, *)
(* the second call changes neither size() nor the sequence order and       *)
(* returns (iterator at the existing entry of k, false).                   *)
C2_AsStated ==
    op.name = "push_back_again" =>
        /\ ~ub
        /\ m[op.key] = op.val1
        /\ Size(This) = Size(prev)
        /\ KeysOf(This) = KeysOf(prev)
        /\ ret = [it |-> FindIdx(prev, op.key), second |-> FALSE]

(* C2, amended: the second push_back(k, v2) changes nothing (size, order   *)
(* and every stored value stay as the first call left them) and returns    *)
(* (iterator at the existing entry of k, false); the value stored for k is *)
(* v1 when the first call inserted k, and the value k already had when it  *)
(* did not.                                                                *)
C2_DuplicatePushBack ==
    op.name = "push_back_again" =>
        /\ ~ub
        /\ This = prev
        /\ Size(This) = Size(prev)
        /\ KeysOf(This) = KeysOf(prev)
        /\ ret = [it |-> FindIdx(prev, op.key), second |-> FALSE]
        /\ This.v[ret.it + 1] = op.key
        /\ op.first.second => m[op.key] = op.val1
        /\ ~op.first.second => m[op.key] = prev.m[op.key]

C2_Witness ==
    /\ op.name = "push_back_again"
    /\ op.first.second
    /\ op.val1 # op.val2
    /\ m[op.key] = op.val1
    /\ Len(v) = MaxKey

(* C3: for every Compare, pushing a key equivalent under Compare to a      *)
(* stored key inserts nothing, returns false with an iterator to the       *)
(* stored entry, and leaves both indexes and size() unchanged.             *)
C3_EquivalentKeyRejected ==
    (op.name = "push_back" /\ \E j \in DOMAIN prev.m : Equiv(j, op.key)) =>
        /\ ~ub
        /\ ret.second = FALSE
        /\ \E j \in DOMAIN prev.m :
             Equiv(j, op.key) /\ ret.it = FindIdx(prev, j)
        /\ This = prev
        /\ Size(This) = Size(prev)

(* C4: after any sequence consisting only of appends (push_back,          *)
(* emplace_back, operator[], bulk push_back) starting from an empty map,   *)
(* the sequence order seen by iteration, at(i), keys() and values() is the *)
(* order in which the keys were first successfully appended.               *)
C4_AppendOrder ==
    appendOnly =>
        /\ ~ub
        /\ Size(This) = Len(order)
        /\ KeysOf(This) = order
        /\ ValuesOf(This) = [i \in 1..Len(order) |-> m[order[i]]]
        /\ \A i \in 1..Len(order) :
             /\ At(This, i - 1).ret = [ref |-> order[i]]
             /\ Deref(This, i - 1).ret = [ref |-> order[i]]

C4_Witness ==
    /\ appendOnly
    /\ op.name = "push_back_range"
    /\ Len(op.range) = MaxBulk
    /\ Len(order) = MaxKey
    /\ order[1] > order[2]

(* C5: no mutating operation reorders surviving entries: two keys present  *)
(* both before and after a push_back, operator[], positional insert,       *)
(* emplace_at, pop_back or erase (by key, position, iterator or range)     *)
(* keep their relative order.                                              *)
C5_RelativeOrderKept ==
    op.name \in {"push_back", "operator[]", "insert", "emplace_at", "pop_back",
                 "erase_key", "erase_pos", "erase_it", "erase_range"} =>
        /\ ~ub
        /\ \A a, b \in Keys :
             (Contains(prev, a) /\ Contains(prev, b)
                 /\ Contains(This, a) /\ Contains(This, b)) =>
             ((FindIdx(prev, a) < FindIdx(prev, b))
                 <=> (FindIdx(This, a) < FindIdx(This, b)))

C5_Witness ==
    /\ op.name = "erase_it"
    /\ op.pos = 0
    /\ Len(prev.v) = MaxKey
    /\ Size(This) = MaxKey - 1
    /\ \A i \in 1..Len(v) : Contains(prev, v[i])

(* C6: for any position pos <= size() and any (k, v) with k not already    *)
(* present, erase(insert(pos, k, v)) returns the map to the state before   *)
(* the insert: same size, same entries and values, same sequence order.    *)
C6_InsertEraseRoundTrip ==
    (op.name = "erase_insert" /\ ~Contains(prev, op.key)) =>
        /\ ~ub
        /\ Size(This) = Size(prev)
        /\ m = prev.m
        /\ v = prev.v
        /\ KeysOf(This) = KeysOf(prev)
        /\ ValuesOf(This) = ValuesOf(prev)

C6_Witness ==
    /\ op.name = "erase_insert"
    /\ ~Contains(prev, op.key)
    /\ op.pos = 1
    /\ op.it = 1
    /\ Size(prev) = MaxKey - 1

(* C7: a reference obtained via at(pos) keeps referring to the entry of    *)
(* its key, with the same value, after a positional insert or erase of     *)
(* other keys, before or after that position.                              *)
Erased(pos) ==
    \/ op.name = "erase_it" /\ pos = op.pos
    \/ op.name = "erase_pos" /\ pos \in op.pos..(op.pos + op.count - 1)
    \/ op.name = "erase_range" /\ pos \in op.first..(op.last - 1)

C7_ReferenceStable ==
    op.name \in {"insert", "emplace_at", "erase_it", "erase_pos", "erase_range"} =>
        /\ ~ub
        /\ \A pos \in 0..(Size(prev) - 1) :
             LET ref == At(prev, pos).ret.ref
             IN  ~Erased(pos) =>
                    /\ ref \in DOMAIN m
                    /\ m[ref] = prev.m[ref]
                    /\ Contains(This, ref)
                    /\ At(This, FindIdx(This, ref)).ret.ref = ref

C7_Witness ==
    /\ op.name = "erase_it"
    /\ op.pos = 0
    /\ Size(prev) = MaxKey
    /\ \E pos \in 1..(Size(prev) - 1) :
         LET ref == At(prev, pos).ret.ref
         IN  /\ m[ref] = TRUE
             /\ FindIdx(This, ref) = pos - 1

(* C8: a value written through one access path (operator[](key),           *)
(* at(pos).second, a dereferenced iterator, find(key)) is the value read   *)
(* through every other access path to the same key; there is exactly one   *)
(* stored value per key.                                                   *)
PathsAgree(c, k, x) ==
    /\ c.m[At(c, FindIdx(c, k)).ret.ref] = x
    /\ c.m[Deref(c, Find(c, k).ret.it).ret.ref] = x
    /\ \A d \in Values : Value(c, k, d).ret.val = x
    /\ IndexConst(c, k).ret.val = x
    /\ Index(c, k).c = c
    /\ c.m[Index(c, k).ret.ref] = x

Wrote(k) ==
    \/ /\ op.name \in {"write_at", "write_it"}
       /\ op.pos < Size(prev)
       /\ prev.v[op.pos + 1] = k
    \/ op.name = "write_index" /\ op.key = k
    \/ op.name = "write_find" /\ op.key = k /\ Contains(prev, k)

C8_OneValuePerKey ==
    /\ ~ub
    /\ \A k \in Keys :
         /\ Contains(This, k) => \E x \in Values : PathsAgree(This, k, x)
         /\ Wrote(k) => Contains(This, k) /\ PathsAgree(This, k, op.val)

C8_Witness ==
    /\ op.name = "write_at"
    /\ op.pos = 1
    /\ Size(This) = MaxKey
    /\ v[1] < v[2]
    /\ v[3] < v[2]
    /\ op.val # prev.m[prev.v[2]]
    /\ m[v[2]] = op.val

(* C9: insert(pos, k, v) and emplace_at(pos, k, v) with pos <= size(): if  *)
(* k is absent, (k, v) ends up at position pos, the entries formerly at    *)
(* positions >= pos move up by one, those before pos stay in place, size   *)
(* grows by one and the returned iterator is begin() + pos; if k is        *)
(* present the container is unchanged and the returned iterator is at the  *)
(* existing entry's position.                                              *)
C9_PositionalInsert ==
    op.name \in {"insert", "emplace_at"} =>
        /\ ~ub
        /\ IF ~Contains(prev, op.key)
           THEN /\ Size(This) = Size(prev) + 1
                /\ ret.it = op.pos
                /\ At(This, op.pos).ret = [ref |-> op.key]
                /\ m[op.key] = op.val
                /\ \A i \in 0..(op.pos - 1) :
                     /\ At(This, i).ret = At(prev, i).ret
                     /\ ValuesOf(This)[i + 1] = ValuesOf(prev)[i + 1]
                /\ \A i \in op.pos..(Size(prev) - 1) :
                     /\ At(This, i + 1).ret = At(prev, i).ret
                     /\ ValuesOf(This)[i + 2] = ValuesOf(prev)[i + 1]
                /\ op.name = "emplace_at" => ret.second
           ELSE /\ This = prev
                /\ ret.it = FindIdx(prev, op.key)
                /\ At(This, ret.it).ret = [ref |-> op.key]
                /\ op.name = "emplace_at" => ~ret.second

C9_Witness ==
    /\ op.name = "insert"
    /\ ~Contains(prev, op.key)
    /\ op.pos = 1
    /\ Size(prev) = MaxKey - 1
    /\ v[2] = op.key

(* C10: erase(key) of a present key removes that entry from both indexes   *)
(* (size decreases by one, find(key) == end() afterwards, the other        *)
(* entries keep their values and relative order); erase(key) of an absent  *)
(* key changes neither index.                                              *)
C10_EraseKey ==
    op.name = "erase_key" =>
        /\ ~ub
        /\ IF Contains(prev, op.key)
           THEN /\ Size(This) = Size(prev) - 1
                /\ Len(v) = Len(prev.v) - 1
                /\ DOMAIN m = (DOMAIN prev.m) \ {op.key}
                /\ Find(This, op.key).ret.it = Size(This)
                /\ v = SelectSeq(prev.v, LAMBDA h : h # op.key)
                /\ \A j \in DOMAIN m : m[j] = prev.m[j]
           ELSE This = prev

C10_Witness ==
    /\ op.name = "erase_key"
    /\ Size(prev) = MaxKey
    /\ FindIdx(prev, op.key) = 1
    /\ Size(This) = MaxKey - 1

(* C11: erase(first, last) with begin() <= first <= last <= end() removes  *)
(* exactly the entries at positions [first, last) from both indexes and    *)
(* returns the iterator following the last removed element (begin() +      *)
(* first), for every such range including the empty one; erase(pos, count) *)
(* and erase(iterator) behave as the corresponding ranges.                 *)
RangeErased(first, last) ==
    /\ ~ub
    /\ v = SubSeq(prev.v, 1, first) \o SubSeq(prev.v, last + 1, Len(prev.v))
    /\ m = [j \in Range(v) |-> prev.m[j]]

C11_EraseRange ==
    /\ op.name = "erase_range" =>
         /\ RangeErased(op.first, op.last)
         /\ IteratorEq(This, ret, op.first)
    /\ op.name = "erase_pos" => RangeErased(op.pos, op.pos + op.count)
    /\ op.name = "erase_it" =>
         /\ RangeErased(op.pos, op.pos + 1)
         /\ IteratorEq(This, ret, op.pos)

(* C12: operator[](key) on a mutable map returns a reference to the        *)
(* existing value and changes neither size nor order when key is present;  *)
(* when key is absent it adds an entry with a default-constructed value at *)
(* the end of the sequence (position size() - 1 afterwards) and returns a  *)
(* reference to that value.  operator[](key) on a const map and            *)
(* value(key, default) never insert.                                       *)
C12_IndexOperator ==
    /\ op.name = "operator[]" =>
         /\ ~ub
         /\ ret = [ref |-> op.key]
         /\ IF Contains(prev, op.key)
            THEN This = prev
            ELSE /\ v = Append(prev.v, op.key)
                 /\ m = [j \in (DOMAIN prev.m) \cup {op.key} |->
                           IF j = op.key THEN DefaultT ELSE prev.m[j]]
                 /\ Size(This) = Size(prev) + 1
                 /\ FindIdx(This, op.key) = Size(This) - 1
    /\ op.name \in {"value", "operator[] const"} =>
         /\ ~ub
         /\ This = prev
         /\ ret = [val |-> IF Contains(prev, op.key) THEN prev.m[op.key]
                           ELSE op.defaultValue]

C12_Witness ==
    /\ op.name = "operator[]"
    /\ ~Contains(prev, op.key)
    /\ Size(prev) = MaxKey - 1
    /\ prev.v[1] > op.key
    /\ FindIdx(This, op.key) = MaxKey - 1

(* C13: at(pos) fails with an out-of-range error exactly when              *)
(* pos >= size(), including pos == size() and any pos on an empty map, and *)
(* leaves the container unchanged; for pos < size() it returns the entry   *)
(* at sequence position pos; duplicate-key insertion never raises an error.*)
C13_AtOutOfRange ==
    /\ op.name = "at" =>
         /\ ~ub
         /\ This = prev
         /\ ret = IF op.pos >= Size(prev) THEN [throws |-> "out_of_range"]
                  ELSE [ref |-> KeysOf(prev)[op.pos + 1]]
    /\ (op.name \in {"push_back", "emplace_back", "insert", "emplace_at"}
            /\ Contains(prev, op.key)) =>
         /\ ~ub
         /\ "throws" \notin DOMAIN ret
         /\ This = prev

C13_Witness ==
    /\ op.name = "at"
    /\ op.pos = Size(prev)
    /\ Size(prev) = MaxKey - 1
    /\ ret = [throws |-> "out_of_range"]

(* C14: a == b is true exactly when a and b hold the same set of           *)
(* (key, value) pairs, regardless of sequence order: two containers with   *)
(* the same entries inserted in different orders compare equal.            *)
PairSet(c) == {Elements(c)[i] : i \in 1..Size(c)}

C15_NotEqualNegatesEqual ==
    op.name = "operator!=" =>
        /\ ~ub
        /\ ret = [val |-> ~Equals(prev, op.other).ret.val]

(* C16: as documented on operator==, two containers are equal when they    *)
(* have the same number of elements and each element of this compares      *)
(* equal with the element of other at the same position.                   *)
C16_EqualityByPosition ==
    op.name = "operator==" =>
        /\ ~ub
        /\ ret = [val |-> /\ Size(prev) = Size(op.other)
                          /\ \A i \in 1..Size(prev) :
                               Elements(prev)[i] = Elements(op.other)[i]]

(* C17: serialisation round trip: writing a container with the serialize  *)
(* manipulator (element count, then each (key, value) pair in sequence     *)
(* order) and reading the result into any container t, empty or not,       *)
(* leaves t equal to the written container, with the same sequence order   *)
(* and none of t's previous entries.                                       *)
C17_SerializeRoundTrip ==
    /\ op.name = "serialize" =>
         /\ ~ub
         /\ This = prev
         /\ Len(ret.stream) = FieldWidth * (1 + 2 * Size(This))
         /\ ReadInt(ret.stream, 0) = Size(This)
         /\ \A i \in 1..Size(This) :
              /\ ReadInt(ret.stream, FieldWidth * (2 * i - 1)) = KeysOf(This)[i]
              /\ ReadT(ret.stream, FieldWidth * 2 * i) = ValuesOf(This)[i]
    /\ op.name = "deserialize" =>
         /\ ~ub
         /\ "throws" \notin DOMAIN ret.result
         /\ Equals(ret.other, This).ret.val
         /\ KeysOf(ret.other) = KeysOf(This)
         /\ ValuesOf(ret.other) = ValuesOf(This)
         /\ ret.other = This

C17_Witness ==
    /\ op.name = "deserialize"
    /\ Size(This) = MaxKey
    /\ Size(op.t) = MaxOther
    /\ v[1] > v[2]
    /\ \E i \in 1..MaxKey : ValuesOf(This)[i]
    /\ ret.other = This

(* C18: move transfers ownership and empties the source: after move        *)
(* construction b(std::move(a)) and after move assignment b = std::move(a) *)
(* b holds exactly a's former entries in a's former sequence order and a   *)
(* is empty.                                                               *)
C18_MoveEmptiesSource ==
    /\ op.name = "move_construct" =>
         /\ ~ub
         /\ ret.constructed = prev
         /\ This = Cont(<<>>, EmptyMap)
    /\ op.name = "move_assign" =>
         /\ ~ub
         /\ This = op.other
         /\ ret.other = Cont(<<>>, EmptyMap)

(* C19: copy construction and copy assignment produce a container with the *)
(* same entries in the same sequence order as the source, sharing no entry *)
(* with it: a later insert, erase or value write on either container is    *)
(* not observable through the other; self-assignment leaves the container  *)
(* unchanged.                                                              *)
C19_CopyIsDeep ==
    /\ op.name = "copy_construct" =>
         /\ ~ub
         /\ This = prev
         /\ Consistent(ret.constructed)
         /\ Elements(ret.constructed) = Elements(prev)
    /\ op.name = "copy_assign" =>
         /\ ~ub
         /\ IF op.self THEN This = prev
            ELSE /\ Consistent(This)
                 /\ Elements(This) = Elements(op.other)
                 /\ ret.other = op.other
    /\ op.name = "modify_copy" =>
         /\ ~ub
         /\ op.side = "copy" => This = prev /\ Elements(This) = Elements(op.copy)
         /\ op.side = "source" =>
              /\ ret.constructed = op.copy
              /\ Elements(ret.constructed) = Elements(prev)

C19_Witness ==
    /\ op.name = "copy_assign"
    /\ ~op.self
    /\ Size(op.other) = MaxOther
    /\ op.other.v[1] > op.other.v[2]
    /\ Size(prev) = MaxKey
    /\ This = op.other

(* C20: construction from an iterator range or an initializer list keeps,  *)
(* for every key occurring more than once in the input, only the           *)
(* first-seen (key, value) pair, and the resulting sequence order is the   *)
(* input order of those first occurrences.                                 *)
FirstSeen(init) ==
    {i \in 1..Len(init) : \A j \in 1..(i - 1) : init[j].key # init[i].key}

C20_ConstructFirstSeen ==
    op.name = "construct" =>
        /\ ~ub
        /\ Consistent(This)
        /\ Size(This) = Cardinality(FirstSeen(op.init))
        /\ \A i \in FirstSeen(op.init) :
             Elements(This)[Cardinality({j \in FirstSeen(op.init) : j < i}) + 1]
                 = op.init[i]

C20_Witness ==
    /\ op.name = "construct"
    /\ Len(op.init) = MaxInit
    /\ op.init[1].key = op.init[2].key
    /\ op.init[1].val # op.init[2].val
    /\ op.init[MaxInit].key < op.init[1].key
    /\ Size(This) = 2

(* C21: bulk append (push_back over a range, initializer list or another   *)
(* container, operator+=, operator+) yields the left operand's entries     *)
(* with their values and order unchanged, followed by those entries of the *)
(* right operand whose keys were not yet present, in the right operand's   *)
(* order; on a key conflict the left operand's value is retained;          *)
(* operator+ leaves both operands unchanged.                               *)
NewIn(c, range) ==
    {i \in 1..Len(range) :
        /\ ~Contains(c, range[i].key)
        /\ \A j \in 1..(i - 1) : range[j].key # range[i].key}

Appended(c, range) ==
    [n \in 1..Cardinality(NewIn(c, range)) |->
        range[CHOOSE i \in NewIn(c, range) :
                  Cardinality({j \in NewIn(c, range) : j < i}) = n - 1]]

Union(c, range) ==
    [n \in 1..(Size(c) + Cardinality(NewIn(c, range))) |->
        IF n <= Size(c) THEN Elements(c)[n]
        ELSE Appended(c, range)[n - Size(c)]]

C21_BulkAppend ==
    /\ op.name = "push_back_range" =>
         /\ ~ub
         /\ Consistent(This)
         /\ Elements(This) = Union(prev, op.range)
    /\ op.name = "operator+=" =>
         /\ ~ub
         /\ Consistent(This)
         /\ Elements(This) = Union(prev, Elements(op.other))
         /\ ret.other = op.other
    /\ op.name = "operator+" =>
         /\ ~ub
         /\ This = prev
         /\ ret.other = op.other
         /\ Consistent(ret.sum)
         /\ Elements(ret.sum) = Union(prev, Elements(op.other))

C21_Witness ==
    /\ op.name = "operator+="
    /\ Size(prev) = MaxOther
    /\ Size(op.other) = MaxOther
    /\ Size(This) = MaxOther + 1
    /\ Contains(prev, op.other.v[1])
    /\ prev.m[op.other.v[1]] # op.other.m[op.other.v[1]]
    /\ op.other.v[2] < prev.v[1]
    /\ v[MaxOther + 1] = op.other.v[2]

(* C22: insert(pos, first, last) with pos <= size() places the input       *)
(* elements whose keys were not already present at consecutive positions   *)
(* pos, pos + 1, ... in input order, skips every element whose key is      *)
(* already present (in the container or earlier in the input) without      *)
(* overwriting it, and leaves former entries in their relative order.      *)
Spliced(c, pos, range) ==
    LET k == Cardinality(NewIn(c, range))
    IN  [n \in 1..(Size(c) + k) |->
            IF n <= pos THEN Elements(c)[n]
            ELSE IF n <= pos + k THEN Appended(c, range)[n - pos]
            ELSE Elements(c)[n - k]]

C22_RangeInsert ==
    op.name = "insert_range" =>
        /\ ~ub
        /\ Consistent(This)
        /\ Elements(This) = Spliced(prev, op.pos, op.range)

C22_Witness ==
    /\ op.name = "insert_range"
    /\ op.pos = 0
    /\ Size(prev) = 1
    /\ Len(op.range) = MaxBulk
    /\ Cardinality(NewIn(prev, op.range)) = 2
    /\ op.range[1].key > op.range[2].key
    /\ Size(This) = 3
    /\ v[1] = op.range[1].key
    /\ v[3] = prev.v[1]

(* C23: mid(pos, length) returns a new container holding exactly the       *)
(* entries at positions [pos, min(pos + length, size())) of the source in  *)
(* the same order, the empty container when pos >= size() or length == 0,  *)
(* and mid(pos) returns positions [pos, size()); the source is unchanged.  *)
MidLength(c, pos, length) ==
    IF pos >= Size(c) THEN 0
    ELSE IF pos + length > Size(c) THEN Size(c) - pos
    ELSE length

C23_Mid ==
    op.name = "mid" =>
        /\ ~ub
        /\ This = prev
        /\ Consistent(ret.mid)
        /\ Elements(ret.mid) =
               [n \in 1..MidLength(prev, op.pos, op.length) |->
                   Elements(prev)[op.pos + n]]
        /\ (op.pos >= Size(prev) \/ op.length = 0) =>
               ret.mid = Cont(<<>>, EmptyMap)

C23_Witness ==
    /\ op.name = "mid"
    /\ op.pos = 1
    /\ op.length = 1
    /\ Size(prev) = MaxKey
    /\ prev.v[2] > prev.v[3]
    /\ ret.mid.v = <<prev.v[2]>>

(* C24: find(key) returns an iterator at the sequence position of the      *)
(* entry whose key matches (find(key) - begin() is the position i with     *)
(* at(i).first == key), or end() if no entry matches; contains(key) is     *)
(* true exactly when find(key) != end(); neither modifies the container.   *)
C24_Find ==
    /\ op.name = "find" =>
         /\ ~ub
         /\ This = prev
         /\ IF \E i \in 0..(Size(prev) - 1) : At(prev, i).ret.ref = op.key
            THEN /\ ret.it < Size(prev)
                 /\ At(prev, ret.it).ret = [ref |-> op.key]
            ELSE ret = [it |-> Size(prev)]
    /\ op.name = "contains" =>
         /\ ~ub
         /\ This = prev
         /\ ret = [val |-> Find(prev, op.key).ret.it # Size(prev)]
         /\ ret.val <=> op.key \in DOMAIN prev.m

C24_Witness ==
    /\ op.name = "find"
    /\ Size(prev) = MaxKey
    /\ ret = [it |-> 0]
    /\ op.key = MaxKey

(* C25: key(value, default) returns the key of the first entry in sequence *)
(* order whose value equals value, and returns default when no entry has   *)
(* that value.                                                             *)
C25_KeyOfValue ==
    op.name = "key" =>
        /\ ~ub
        /\ This = prev
        /\ LET matches == {i \in 1..Size(prev) : ValuesOf(prev)[i] = op.val}
           IN  ret = [val |-> IF matches = {} THEN op.defaultKey
                              ELSE KeysOf(prev)[Min(matches)]]

C25_Witness ==
    /\ op.name = "key"
    /\ Size(prev) = MaxKey
    /\ ValuesOf(prev)[1] # op.val
    /\ ValuesOf(prev)[2] = op.val
    /\ ValuesOf(prev)[3] = op.val
    /\ prev.v[3] < prev.v[2]
    /\ ret = [val |-> prev.v[2]]
    /\ op.defaultKey # prev.v[2]

(* C26: a.swap(b) exchanges both indexes wholesale: afterwards a holds b's *)
(* former entries in b's former sequence order and b holds a's former      *)
(* entries in a's former order, both remain internally consistent, and     *)
(* swapping twice restores the original state.                             *)
C26_Swap ==
    /\ op.name = "swap" =>
         /\ ~ub
         /\ This = op.other
         /\ ret.other = prev
         /\ Consistent(This)
         /\ Consistent(ret.other)
         /\ Elements(This) = Elements(op.other)
         /\ Elements(ret.other) = Elements(prev)
    /\ op.name = "swap_again" =>
         /\ ~ub
         /\ This = prev
         /\ ret.other = op.other
         /\ Consistent(This)
         /\ Consistent(ret.other)

C26_Witness ==
    /\ op.name = "swap_again"
    /\ Size(prev) = MaxKey
    /\ Size(op.other) = MaxOther
    /\ prev.v[1] > prev.v[2]
    /\ op.other.v[1] > op.other.v[2]
    /\ This = prev
    /\ This # op.other

(* C27: iterators are positions in the sequence: for every i in           *)
(* [0, size()], (begin() + i) - begin() == i and end() == begin() +        *)
(* size(); for i < size(), *(begin() + i) is the entry at(i), the reverse  *)
(* iterator rbegin() + i designates at(size() - 1 - i), and the key        *)
(* iterator at offset i dereferences to at(i).first; relational comparison *)
(* of two iterators agrees with comparison of their positions.             *)
C27_IteratorsArePositions ==
    op.name = "iterators" =>
        /\ ~ub
        /\ This = prev
        /\ ret.diff = op.i
        /\ ret.atEnd
        /\ op.i < Size(prev) =>
             /\ ret.deref = At(prev, op.i).ret
             /\ ret.rderef = At(prev, Size(prev) - 1 - op.i).ret
             /\ ret.key = [val |-> At(prev, op.i).ret.ref]
        /\ ret.eq <=> op.i = op.j
        /\ ret.lt <=> op.i < op.j
        /\ ret.le <=> op.i <= op.j
        /\ ret.gt <=> op.i > op.j
        /\ ret.ge <=> op.i >= op.j

C27_Witness ==
    /\ op.name = "iterators"
    /\ Size(prev) = MaxKey
    /\ op.i = 0
    /\ op.j = 2
    /\ ret.lt
    /\ ret.deref = [ref |-> prev.v[1]]
    /\ ret.rderef = [ref |-> prev.v[3]]
    /\ ret.key = [val |-> prev.v[1]]
    /\ prev.v[1] > prev.v[3]

(* C28: std::erase_if(c, pred) erases from c all elements that satisfy     *)
(* pred and no others, leaves the remaining elements in their previous     *)
(* relative order with both indexes consistent, terminates, and never      *)
(* dereferences or erases a position at or beyond the container's current  *)
(* end().                                                                  *)
C28_EraseIf ==
    op.name = "erase_if" =>
        /\ ~ub
        /\ Consistent(This)
        /\ v = SelectSeq(prev.v, LAMBDA h : h \notin op.pred)
        /\ m = [j \in (DOMAIN prev.m) \ op.pred |-> prev.m[j]]

(* the increments thread t has finished: their write to the managed int    *)
(* has happened                                                            *)
Completed(t) ==
    thread[t].i * MaxInner + thread[t].j
        + (IF thread[t].pc = "unlock" THEN 1 ELSE 0)

RECURSIVE SumCompleted(_)
SumCompleted(n) == IF n = 0 THEN 0 ELSE Completed(n) + SumCompleted(n - 1)

InWrite(t) == thread[t].pc \in {"load", "store", "unlock"}

InRead(t) == thread[t].pc \in {"read", "unlock_shared"}

(* C29: when several threads each increment the managed int through their *)
(* own mutable copy of one SafeSharedPtr, no update is lost: the value is  *)
(* always the number of increments that have been written, a thread       *)
(* between the read and the release of its increment holds the lock alone, *)
(* and once every thread is done the value is the total number of          *)
(* increments.                                                             *)
C29_NoLostUpdate ==
    /\ value = SumCompleted(Threads)
    /\ \A t \in ThreadIds :
         InWrite(t) =>
           /\ bits[handle[t].lck] % 2 = WRITER
           /\ \A u \in ThreadIds \ {t} : ~InWrite(u) /\ ~InRead(u)
    /\ (\A t \in ThreadIds : thread[t].pc = "done")
         => value = Threads * MaxOuter * MaxInner

C29_Witness ==
    /\ \A t \in ThreadIds : thread[t].pc = "done"
    /\ value = Threads * MaxOuter * MaxInner
    /\ value > 1

(* the live proxies that took lock l in the given mode, themselves or the  *)
(* proxy they were moved from                                              *)
Holders(l, mode) ==
    {p \in Proxies : /\ proxy[p].st = "live"
                     /\ acquired[p] = [lck |-> l, mode |-> mode]}

(* the const dereferences whose failed attempt still counts as a reader *)
Spinning(l) ==
    {p \in Proxies : proxy[p].st = "lock_shared_fail" /\ proxy[p].lock_ = l}

(* C30: a lock is held for writing exactly while the proxy of a mutable    *)
(* dereference of it, or the proxy that one was moved into, is alive, and  *)
(* it is held for reading once for every such proxy of a const             *)
(* dereference: destroying the proxy releases the lock it took, once and   *)
(* in the mode it took it.                                                 *)
C30_ProxyHoldsLock ==
    \A l \in Locks :
      /\ Cardinality(Holders(l, "write")) <= 1
      /\ ExclusiveBits(bits[l]) =
           (IF Holders(l, "write") = {} THEN 0 ELSE WRITER)
      /\ bits[l] - ExclusiveBits(bits[l]) =
           READER * (Cardinality(Holders(l, "read"))
                       + Cardinality(Spinning(l)))

----------------------------------------------------------------------------
(***************************************************************************)
(* RWSpinLock called directly                                              *)
(***************************************************************************)

Holding(mode) == {t \in LockThreads : locker[t].held = mode}

Inside(calls) == {t \in LockThreads : locker[t].pc \in calls}

(* t's call returned the mode to it in this step *)
Gains(t, mode) == locker[t].held # mode /\ locker'[t].held = mode

Quiet == \A t \in LockThreads : locker[t].pc = "idle" /\ locker[t].held = "none"

(* C32: while one thread holds the write lock, no other thread holds the   *)
(* write lock or a shared lock, under every interleaving of the acquiring, *)
(* releasing, upgrading and downgrading calls.                             *)
C32_MutualExclusion ==
    \A t \in Holding("write") :
        \A u \in LockThreads \ {t} : locker[u].held \notin {"write", "shared"}

(* A writer holds while another thread spins in lock_shared() with its     *)
(* READER still added and a third spins in lock()                          *)
C32_Witness ==
    /\ Holding("write") # {}
    /\ Inside({"lock_shared_fail"}) # {}
    /\ Inside({"lock"}) # {}

(* C33: while readers hold the lock and a thread is blocked in lock(), no  *)
(* lock_shared() or try_lock_shared() of any thread succeeds.              *)
C33_WriterBlocksNewReaders ==
    [][(Inside({"lock"}) # {} /\ Holding("shared") # {})
         => \A t \in LockThreads : ~Gains(t, "shared")]_vars

(* C36: at most one thread holds the upgrade lock; while it is held no     *)
(* thread holds the write lock and no shared acquisition succeeds, though  *)
(* earlier readers may stay; the upgrade hold becomes a write hold only    *)
(* when no shared holder remains.                                          *)
C36_UpgradeMode ==
    /\ [](/\ Cardinality(Holding("upgrade")) <= 1
          /\ Holding("upgrade") # {} => Holding("write") = {})
    /\ [][/\ Holding("upgrade") # {}
             => \A t \in LockThreads \ Holding("upgrade") :
                    ~Gains(t, "shared")
          /\ \A t \in Holding("upgrade") :
                Gains(t, "write")
                  => Holding("shared") = {} /\ bits[TheLock] = UPGRADED]_vars

(* The upgrade lock is held beside an earlier reader while a third thread  *)
(* has failed to get shared access and the holder waits to become writer   *)
C36_Witness ==
    /\ Inside({"unlock_upgrade_and_lock"}) # {}
    /\ Holding("shared") # {}
    /\ Inside({"lock_shared_fail"}) # {}

Transferring ==
    Inside({"unlock_and_lock_shared", "unlock_and_lock_upgrade"})

(* C37: between the two steps of unlock_and_lock_shared and of             *)
(* unlock_and_lock_upgrade no other thread gets the write lock, between    *)
(* those of unlock_and_lock_upgrade none gets the upgrade lock, and a      *)
(* thread holding the target mode has it in the lock word: a reader is     *)
(* counted, an upgrade holder has UPGRADED set and excludes writers.       *)
C37_AtomicTransfer ==
    /\ [](/\ \A t \in Transferring : HasBit(bits[TheLock], WRITER)
          /\ Holding("upgrade") # {}
               => /\ HasBit(bits[TheLock], UPGRADED)
                  /\ ~HasBit(bits[TheLock], WRITER)
          /\ bits[TheLock] >= READER * Cardinality(Holding("shared")))
    /\ [][/\ Transferring # {}
             => \A u \in LockThreads : ~Gains(u, "write")
          /\ Inside({"unlock_and_lock_upgrade"}) # {}
             => \A u \in LockThreads \ Inside({"unlock_and_lock_upgrade"}) :
                    ~Gains(u, "upgrade")
          /\ \A t \in Inside({"unlock_and_lock_shared"}) :
                locker'[t].pc = "idle" => locker'[t].held = "shared"
          /\ \A t \in Inside({"unlock_and_lock_upgrade"}) :
                locker'[t].pc = "idle" => locker'[t].held = "upgrade"]_vars

(* A writer is between the two steps of unlock_and_lock_upgrade while      *)
(* another thread spins in lock_upgrade() and a third in lock()            *)
C37_Witness ==
    /\ Inside({"unlock_and_lock_upgrade"}) # {}
    /\ Inside({"lock_upgrade"}) # {}
    /\ Inside({"lock"}) # {}

(* C39: when no thread holds the lock and no call is in progress the lock  *)
(* word is 0, whatever try calls failed before, so try_lock() succeeds.    *)
C39_NoResidue ==
    Quiet => bits[TheLock] = 0 /\ try_lock(bits[TheLock]).ok

(* The lock is free again after try calls of two threads failed *)
C39_Witness ==
    /\ Quiet
    /\ Cardinality({t \in LockThreads : locker[t].failed}) >= 2

----------------------------------------------------------------------------
(***************************************************************************)
(* Two dereferences in one expression                                      *)
(***************************************************************************)

(* t is inside the lock() of its second PtrHelper on a lock its first      *)
(* PtrHelper holds                                                         *)
Relocking(t) == nest.th[t].pc = "lock2" /\ Owns(t, NestLock(t))

(* C31: a thread that dereferences the same mutable SafeSharedPtr twice in *)
(* one expression never gets the second lock and deadlocks: it stays in    *)
(* the second acquisition for ever while the program keeps running.        *)
C31_NestedDeadlock ==
    [][\A t \in NestThreads :
         Relocking(t) => Relocking(t)' /\ ~nest'.ended]_vars

----------------------------------------------------------------------------
(***************************************************************************)
(* SafeWeakPtr::lock()                                                     *)
(***************************************************************************)

(* C34: under every interleaving with owners releasing the object,         *)
(* SafeWeakPtr::lock() returns an empty SafeSharedPtr or one that shares   *)
(* the still-live object, and never throws or terminates the program.      *)
C34_LockAtomic ==
    /\ ~weak.ended
    /\ \A t \in WeakThreads :
         weak.th[t].pc = "returned"
           => \/ weak.th[t].result = "empty"
              \/ weak.th[t].result = "shared" /\ weak.use_count >= 1

----------------------------------------------------------------------------
(***************************************************************************)
(* Ownership and locks                                                     *)
(***************************************************************************)

(* C38: any two SafeSharedPtr that share ownership of one object guard it  *)
(* with the same lock, however they were obtained.                         *)
C38_SameObjectSameLock ==
    \A g \in Handles, h \in Handles :
        (handle[g].ptr # nullptr /\ handle[g].ptr = handle[h].ptr)
          => handle[g].lck = handle[h].lck

----------------------------------------------------------------------------
(***************************************************************************)
(* approximateRatio                                                        *)
(***************************************************************************)

Coprime(i, j) == \A d \in 2..Abs(j) : ~(i % d = 0 /\ j % d = 0)

(* C35: for a value >= 0 with at most n decimal digits, k / 10^n, the      *)
(* result (p, q) has q > 0, p / q equal to the value and p, q coprime.     *)
C35_ExactReducedRatio ==
    (ratio.pc = "done" /\ ratio.k >= 0)
      => /\ ratio.second > 0
         /\ ratio.first * (10 ^ ratio.n) = ratio.k * ratio.second
         /\ Coprime(ratio.first, ratio.second)

(* C40: approximateRatio terminates for every finite value, zero, values   *)
(* between 0 and 1 and negative values included, and every n >= 0.         *)
C40_Terminates == <>(ratio.pc = "done")

====
